---- MODULE Spec2Model ----
(***************************************************************************)
(* multi-email-sender: the sliding-window RateLimiter, the RetryLogic      *)
(* backoff policy and the EmailSender dispatch loop, as state machines.    *)
(*                                                                         *)
(* Every action is the code that runs between two suspension points        *)
(* (await) of the JavaScript source.  Time is Date.now() in milliseconds.  *)
(* Strings are atomic values of the state; Chars maps each of them to its  *)
(* characters, and the keyword tests (String.includes, toLowerCase) work   *)
(* on the characters.  SendResult.duration / statistics.averageDuration    *)
(* and the Logger are not modelled.                                        *)
(***************************************************************************)
EXTENDS Integers, Sequences, FiniteSets, TLC

VARIABLES
    clock,          \* Date.now()
    ticks,          \* number of free clock advances taken (bounded by MaxTicks)
    rateLimiter,    \* the RateLimiter object
    rl,             \* per caller: the activation of waitIfNeeded
    released,       \* history: the clock value at each return of waitIfNeeded
    retryLogic,     \* the RetryLogic object
    retry,          \* per caller: the activation of executeWithRetry
    sender,         \* the EmailSender object (config.options, dailyCount, ...)
    call,           \* per caller: the activation of sendToMultiple / sendSingle
    transportCalls, \* history: number of transporter.sendMail calls made
    input,          \* the argument a pure function is applied to
    output          \* the values it returned, in order

vars == <<clock, ticks, rateLimiter, rl, released, retryLogic, retry, sender, call,
          transportCalls, input, output>>

(***************************************************************************)
(* Bounds of the model                                                     *)
(***************************************************************************)
MaxTicks == 3          \* free clock advances per behaviour
MaxCalls == 4          \* direct waitIfNeeded calls per behaviour
MaxPerMinute == 2      \* configured maxEmailsPerMinute ranges over 1..MaxPerMinute
MaxRetriesOpt == 3     \* configured options.maxRetries ranges over 0..MaxRetriesOpt
MaxRuns == 2           \* direct executeWithRetry calls per behaviour
MaxResults == 3        \* length of the result set given to getRetryStatistics
MaxAttempt == 4        \* attempt numbers given to _calculateDelay: 1..MaxAttempt
MaxBatch == 2          \* recipients of one sendToMultiple call
MaxOps == 2            \* sendToMultiple / sendSingle calls per caller
MaxDailyLimit == 2     \* configured options.dailyLimit ranges over 1..MaxDailyLimit
MaxSenderRetries == 2  \* an EmailSender's options.maxRetries: 1..MaxSenderRetries
MaxDays == 1           \* midnights crossed per behaviour
MaxRecords == 6        \* recordResult calls of any outcome per behaviour
MaxFailures == 20      \* recordResult(false) calls of a failures-only behaviour
MaxUpdates == 1        \* updateConfig calls per behaviour
MaxBursts == 2         \* recordBurst calls per behaviour
MaxCounted == 2        \* failed results counted by direct _updateStatistics calls

Callers == {1, 2}

(***************************************************************************)
(* Strings                                                                 *)
(***************************************************************************)
Chars ==
    ("network timeout" :> <<"n", "e", "t", "w", "o", "r", "k", " ", "t", "i", "m", "e", "o", "u", "t">>)
 @@ ("Connection refused" :> <<"C", "o", "n", "n", "e", "c", "t", "i", "o", "n", " ", "r", "e", "f", "u", "s", "e", "d">>)
 @@ ("rate limit exceeded" :> <<"r", "a", "t", "e", " ", "l", "i", "m", "i", "t", " ", "e", "x", "c", "e", "e", "d", "e", "d">>)
 @@ ("permission denied" :> <<"p", "e", "r", "m", "i", "s", "s", "i", "o", "n", " ", "d", "e", "n", "i", "e", "d">>)
 @@ ("SMTP error" :> <<"S", "M", "T", "P", " ", "e", "r", "r", "o", "r">>)
 @@ ("mailbox unavailable" :> <<"m", "a", "i", "l", "b", "o", "x", " ", "u", "n", "a", "v", "a", "i", "l", "a", "b", "l", "e">>)
 @@ ("unknown failure" :> <<"u", "n", "k", "n", "o", "w", "n", " ", "f", "a", "i", "l", "u", "r", "e">>)
 @@ ("invalid credentials" :> <<"i", "n", "v", "a", "l", "i", "d", " ", "c", "r", "e", "d", "e", "n", "t", "i", "a", "l", "s">>)
 @@ ("Authentication Failed" :> <<"A", "u", "t", "h", "e", "n", "t", "i", "c", "a", "t", "i", "o", "n", " ", "F", "a", "i", "l", "e", "d">>)
 @@ ("Unauthorized" :> <<"U", "n", "a", "u", "t", "h", "o", "r", "i", "z", "e", "d">>)
 @@ ("Malformed address" :> <<"M", "a", "l", "f", "o", "r", "m", "e", "d", " ", "a", "d", "d", "r", "e", "s", "s">>)
 @@ ("bad email address" :> <<"b", "a", "d", " ", "e", "m", "a", "i", "l", " ", "a", "d", "d", "r", "e", "s", "s">>)
 @@ ("Email not found" :> <<"E", "m", "a", "i", "l", " ", "n", "o", "t", " ", "f", "o", "u", "n", "d">>)
 @@ ("VALIDATION error" :> <<"V", "A", "L", "I", "D", "A", "T", "I", "O", "N", " ", "e", "r", "r", "o", "r">>)
 @@ ("validation" :> <<"v", "a", "l", "i", "d", "a", "t", "i", "o", "n">>)
 @@ ("invalid" :> <<"i", "n", "v", "a", "l", "i", "d">>)
 @@ ("malformed" :> <<"m", "a", "l", "f", "o", "r", "m", "e", "d">>)
 @@ ("authentication failed" :> <<"a", "u", "t", "h", "e", "n", "t", "i", "c", "a", "t", "i", "o", "n", " ", "f", "a", "i", "l", "e", "d">>)
 @@ ("unauthorized" :> <<"u", "n", "a", "u", "t", "h", "o", "r", "i", "z", "e", "d">>)
 @@ ("invalid email" :> <<"i", "n", "v", "a", "l", "i", "d", " ", "e", "m", "a", "i", "l">>)
 @@ ("bad email" :> <<"b", "a", "d", " ", "e", "m", "a", "i", "l">>)
 @@ ("email not found" :> <<"e", "m", "a", "i", "l", " ", "n", "o", "t", " ", "f", "o", "u", "n", "d">>)
 @@ ("network" :> <<"n", "e", "t", "w", "o", "r", "k">>)
 @@ ("timeout" :> <<"t", "i", "m", "e", "o", "u", "t">>)
 @@ ("connection" :> <<"c", "o", "n", "n", "e", "c", "t", "i", "o", "n">>)
 @@ ("rate" :> <<"r", "a", "t", "e">>)
 @@ ("limit" :> <<"l", "i", "m", "i", "t">>)
 @@ ("quota" :> <<"q", "u", "o", "t", "a">>)
 @@ ("auth" :> <<"a", "u", "t", "h">>)
 @@ ("credential" :> <<"c", "r", "e", "d", "e", "n", "t", "i", "a", "l">>)
 @@ ("permission" :> <<"p", "e", "r", "m", "i", "s", "s", "i", "o", "n">>)
 @@ ("smtp" :> <<"s", "m", "t", "p">>)
 @@ ("mail" :> <<"m", "a", "i", "l">>)
 @@ ("delivery" :> <<"d", "e", "l", "i", "v", "e", "r", "y">>)
 @@ ("authentication" :> <<"a", "u", "t", "h", "e", "n", "t", "i", "c", "a", "t", "i", "o", "n">>)
 @@ ("SMTP" :> <<"S", "M", "T", "P">>)
 @@ ("a@x.io" :> <<"a", "@", "x", ".", "i", "o">>)
 @@ ("b@y.org" :> <<"b", "@", "y", ".", "o", "r", "g">>)
 @@ ("c@z.net" :> <<"c", "@", "z", ".", "n", "e", "t">>)
 @@ ("bad-address" :> <<"b", "a", "d", "-", "a", "d", "d", "r", "e", "s", "s">>)
 @@ ("no@dot" :> <<"n", "o", "@", "d", "o", "t">>)
 @@ ("two@@x.io" :> <<"t", "w", "o", "@", "@", "x", ".", "i", "o">>)
 @@ ("sp ace@x.io" :> <<"s", "p", " ", "a", "c", "e", "@", "x", ".", "i", "o">>)
 @@ ("SMTP connection timeout" :> <<"S", "M", "T", "P", " ", "c", "o", "n", "n", "e", "c", "t", "i", "o", "n", " ", "t", "i", "m", "e", "o", "u", "t">>)
 @@ ("Mail quota exceeded" :> <<"M", "a", "i", "l", " ", "q", "u", "o", "t", "a", " ", "e", "x", "c", "e", "e", "d", "e", "d">>)
 @@ ("auth rate limit" :> <<"a", "u", "t", "h", " ", "r", "a", "t", "e", " ", "l", "i", "m", "i", "t">>)
 @@ ("mail delivery permission" :> <<"m", "a", "i", "l", " ", "d", "e", "l", "i", "v", "e", "r", "y", " ", "p", "e", "r", "m", "i", "s", "s", "i", "o", "n">>)
 @@ ("" :> <<>>)

Upper == <<"A","B","C","D","E","F","G","H","I","J","K","L","M",
           "N","O","P","Q","R","S","T","U","V","W","X","Y","Z">>
Lower == <<"a","b","c","d","e","f","g","h","i","j","k","l","m",
           "n","o","p","q","r","s","t","u","v","w","x","y","z">>

\* String.prototype.toLowerCase, on characters
toLowerCase(s) ==
    [i \in DOMAIN s |->
        IF \E k \in DOMAIN Upper : Upper[k] = s[i]
        THEN Lower[CHOOSE k \in DOMAIN Upper : Upper[k] = s[i]]
        ELSE s[i]]

\* String.prototype.includes: kw occurs in s as a contiguous substring
includes(s, kw) ==
    \E i \in 1..(Len(s) - Len(Chars[kw]) + 1) :
        SubSeq(s, i, i + Len(Chars[kw]) - 1) = Chars[kw]

\* Error messages a rejected transport call (or a failing operation) carries
Messages ==
    {"network timeout", "Connection refused", "rate limit exceeded", "permission denied",
     "SMTP error", "mailbox unavailable", "unknown failure",
     "invalid credentials", "Authentication Failed", "Unauthorized",
     "Malformed address", "Email not found", "VALIDATION error", "bad email address"}

Min(a, b) == IF a <= b THEN a ELSE b
Max(a, b) == IF a >= b THEN a ELSE b

RECURSIVE Pow2(_)
Pow2(n) == IF n <= 0 THEN 1 ELSE 2 * Pow2(n - 1)

RECURSIVE GCD(_, _)
GCD(a, b) == IF b = 0 THEN a ELSE GCD(b, a % b)

RECURSIVE SumSeq(_)
SumSeq(s) == IF s = <<>> THEN 0 ELSE Head(s) + SumSeq(Tail(s))

SelectTimes(s, cutoff) == SelectSeq(s, LAMBDA t : t > cutoff)

(***************************************************************************)
(* RetryLogic (src/utils/retryLogic.js)                                    *)
(*                                                                         *)
(* A delay is held exactly, in thousandths of a millisecond.  Math.random  *)
(* is a choice among RandomTenths (tenths, in [0, 1)).                     *)
(***************************************************************************)
RandomTenths == {0, 9}

\* An options object; 0 stands for an absent (or zero) field: both are falsy.
OptionsSet == [maxRetries : 0..MaxRetriesOpt, retryDelay : {0, 12000}]

\* constructor: options.maxRetries || 3, options.retryDelay || 1000
RetryLogic(options) ==
    [maxRetries |-> IF options.maxRetries = 0 THEN 3 ELSE options.maxRetries,
     baseDelay  |-> IF options.retryDelay = 0 THEN 1000 ELSE options.retryDelay,
     maxDelay   |-> 30000]

_shouldNotRetry_never(error) == FALSE

\* Error messages that match several keyword groups of _applyErrorMultiplier
MixedMessages ==
    {"SMTP connection timeout", "Mail quota exceeded", "auth rate limit",
     "mail delivery permission"}

_shouldNotRetry(error) ==
    LET errorMessage == toLowerCase(Chars[error]) IN
    \/ includes(errorMessage, "validation")
    \/ includes(errorMessage, "invalid")
    \/ includes(errorMessage, "malformed")
    \/ includes(errorMessage, "invalid credentials")
    \/ includes(errorMessage, "authentication failed")
    \/ includes(errorMessage, "unauthorized")
    \/ includes(errorMessage, "invalid email")
    \/ includes(errorMessage, "bad email")
    \/ includes(errorMessage, "email not found")

_errorGroup_smtpFirst(error) ==
    LET errorMessage == toLowerCase(Chars[error]) IN
    IF \/ includes(errorMessage, "smtp")
       \/ includes(errorMessage, "mail")
       \/ includes(errorMessage, "delivery")
    THEN "smtp"
    ELSE IF \/ includes(errorMessage, "network")
            \/ includes(errorMessage, "timeout")
            \/ includes(errorMessage, "connection")
    THEN "network"
    ELSE IF \/ includes(errorMessage, "rate")
            \/ includes(errorMessage, "limit")
            \/ includes(errorMessage, "quota")
    THEN "rate"
    ELSE IF \/ includes(errorMessage, "auth")
            \/ includes(errorMessage, "credential")
            \/ includes(errorMessage, "permission")
    THEN "auth"
    ELSE "none"

\* The keyword group of _applyErrorMultiplier an error falls in: the first of
\* the four whose test holds
_errorGroup(error) ==
    LET errorMessage == toLowerCase(Chars[error]) IN
    IF \/ includes(errorMessage, "network")
       \/ includes(errorMessage, "timeout")
       \/ includes(errorMessage, "connection")
    THEN "network"
    ELSE IF \/ includes(errorMessage, "rate")
            \/ includes(errorMessage, "limit")
            \/ includes(errorMessage, "quota")
    THEN "rate"
    ELSE IF \/ includes(errorMessage, "auth")
            \/ includes(errorMessage, "credential")
            \/ includes(errorMessage, "permission")
    THEN "auth"
    ELSE IF \/ includes(errorMessage, "smtp")
            \/ includes(errorMessage, "mail")
            \/ includes(errorMessage, "delivery")
    THEN "smtp"
    ELSE "none"

\* _shouldNotRetry and _errorGroup tabulated over the messages (evaluated once)
NotRetried == [error \in Messages |-> _shouldNotRetry(error)]
ErrorGroup == [error \in Messages \cup MixedMessages |-> _errorGroup(error)]

\* delay * 1.5, * 3, * 1.2, * 1.3 or delay; delay is a multiple of 10
\* (thousandths of a ms), so the product is exact
_applyErrorMultiplier(delay, error) ==
    CASE ErrorGroup[error] = "network" -> (delay \div 10) * 15
      [] ErrorGroup[error] = "rate"    -> delay * 3
      [] ErrorGroup[error] = "auth"    -> (delay \div 10) * 12
      [] ErrorGroup[error] = "smtp"    -> (delay \div 10) * 13
      [] OTHER                         -> delay

\* this.baseDelay * Math.pow(2, attempt - 1), in ms
_backoff(R, attempt) == R.baseDelay * Pow2(attempt - 1)

_capDelay_uncapped(R, delay) == delay

\* Math.min(delay, this.maxDelay)
_capDelay(R, delay) == Min(delay, R.maxDelay * 1000)

\* _calculateDelay up to the cap: backoff, jitter, error multiplier
_scaledDelay(R, attempt, error, random) ==
    LET delay  == _backoff(R, attempt) * 1000
        jitter == (random * delay) \div 100      \* Math.random() * 0.1 * delay
    IN  _applyErrorMultiplier(delay + jitter, error)

_calculateDelay(R, attempt, error, random) ==
    _capDelay(R, _scaledDelay(R, attempt, error, random))

\* The activation of executeWithRetry.  pc: "none" (not running), "fn" (awaiting
\* the promise of fn()), "delay" (awaiting _delay), "returned", "thrown".
\* fnCalls, suspends, errors are history: fn() invocations, _delay calls and
\* the errors fn threw in this activation.
RetryIdle ==
    [pc |-> "none", attempt |-> 0, lastError |-> "undefined", wake |-> 0,
     delay |-> 0, preJitter |-> 0, fnCalls |-> 0, suspends |-> 0,
     errors |-> <<>>, error |-> "none", runs |-> 0]

LoopGuard_oneMore(R, attempt) == attempt <= R.maxRetries + 1

\* for (...; attempt <= this.maxRetries; ...)
LoopGuard(R, attempt) == attempt <= R.maxRetries

DelayGuard_always(R, attempt) == TRUE

\* if (attempt < this.maxRetries): no delay after the last attempt
DelayGuard(R, attempt) == attempt < R.maxRetries

\* The loop head: the next fn() is invoked, or the loop ends and lastError is thrown
ExecLoop(R, r) ==
    IF LoopGuard(R, r.attempt)
    THEN [r EXCEPT !.pc = "fn", !.fnCalls = @ + 1]
    ELSE [r EXCEPT !.pc = "thrown", !.error = r.lastError]

\* executeWithRetry up to its first await
executeWithRetry(R, r) ==
    ExecLoop(R, [RetryIdle EXCEPT !.attempt = 1, !.runs = r.runs + 1])

\* fn() fulfilled: return await fn()
ExecFulfilled(r) == [r EXCEPT !.pc = "returned"]

\* fn() rejected with error: the catch block
ExecRejected(R, r, error, random, now) ==
    LET r1 == [r EXCEPT !.lastError = error, !.errors = Append(@, error)] IN
    IF NotRetried[error]
    THEN [r1 EXCEPT !.pc = "thrown", !.error = error]
    ELSE IF DelayGuard(R, r1.attempt)
    THEN LET delay == _calculateDelay(R, r1.attempt, error, random) IN
         [r1 EXCEPT !.pc = "delay", !.delay = delay,
                    !.preJitter = _backoff(R, r1.attempt),
                    !.wake = now + (delay \div 1000), !.suspends = @ + 1]
    ELSE ExecLoop(R, [r1 EXCEPT !.attempt = @ + 1])

ExecResumed_sameAttempt(R, r) == ExecLoop(R, r)

\* _delay elapsed: attempt++ and the loop head
ExecResumed(R, r) == ExecLoop(R, [r EXCEPT !.attempt = @ + 1])

(***************************************************************************)
(* RateLimiter (utils/rateLimiter.js)                                      *)
(***************************************************************************)
minuteWindow == 60000
hourWindow == 3600000

\* A rateLimit config; 0 stands for an absent (or zero) cap: both are falsy.
RateConfigs ==
    [enabled : BOOLEAN, maxEmailsPerMinute : 1..MaxPerMinute,
     maxEmailsPerHour : {0, MaxPerMinute}]

\* constructor
RateLimiter(config) ==
    [enabled            |-> config.enabled,
     maxEmailsPerMinute |-> IF config.maxEmailsPerMinute = 0 THEN 10
                            ELSE config.maxEmailsPerMinute,
     maxEmailsPerHour   |-> IF config.maxEmailsPerHour = 0 THEN 100
                            ELSE config.maxEmailsPerHour,
     emailTimestamps    |-> <<>>,
     stats |-> [totalEmails |-> 0, rateLimitedEmails |-> 0,
                averageWaitTime |-> [num |-> 0, den |-> 1], maxWaitTime |-> 0]]

RECURSIVE MinOfSeq(_)
MinOfSeq(s) == IF Len(s) = 1 THEN s[1] ELSE Min(s[1], MinOfSeq(Tail(s)))

_getEmailCountInWindow(L, now, window) ==
    Len(SelectTimes(L.emailTimestamps, now - window))

RECURSIVE MaxOfSeq(_)
MaxOfSeq(s) == IF Len(s) = 1 THEN s[1] ELSE Max(s[1], MaxOfSeq(Tail(s)))

_getOldestTimestampInWindow_newest(L, now, window) ==
    LET timestampsInWindow == SelectTimes(L.emailTimestamps, now - window) IN
    IF Len(timestampsInWindow) > 0 THEN MaxOfSeq(timestampsInWindow) ELSE now

_getOldestTimestampInWindow(L, now, window) ==
    LET timestampsInWindow == SelectTimes(L.emailTimestamps, now - window) IN
    IF Len(timestampsInWindow) > 0 THEN MinOfSeq(timestampsInWindow) ELSE now

_calculateWaitTime_hourFirst(L, now) ==
    LET minuteCount == _getEmailCountInWindow(L, now, minuteWindow)
        hourCount   == _getEmailCountInWindow(L, now, hourWindow)
    IN  IF hourCount >= L.maxEmailsPerHour
        THEN Max(0, _getOldestTimestampInWindow(L, now, hourWindow) + hourWindow - now)
        ELSE IF minuteCount >= L.maxEmailsPerMinute
        THEN Max(0, _getOldestTimestampInWindow(L, now, minuteWindow) + minuteWindow - now)
        ELSE 0

_calculateWaitTime(L, now) ==
    LET minuteCount == _getEmailCountInWindow(L, now, minuteWindow)
        hourCount   == _getEmailCountInWindow(L, now, hourWindow)
    IN  IF minuteCount >= L.maxEmailsPerMinute
        THEN Max(0, _getOldestTimestampInWindow(L, now, minuteWindow) + minuteWindow - now)
        ELSE IF hourCount >= L.maxEmailsPerHour
        THEN Max(0, _getOldestTimestampInWindow(L, now, hourWindow) + hourWindow - now)
        ELSE 0

\* The configurations a BurstRateLimiter is constructed with; 0 stands for an
\* absent (or zero) field: both are falsy
BurstConfigs ==
    [enabled : {TRUE}, maxEmailsPerMinute : {1}, maxEmailsPerHour : {0, 2},
     burstLimit : {0, 3}, burstCooldown : {0, 60000}]

\* BurstRateLimiter constructor: super(config), then the burst fields
BurstRateLimiter(config) ==
    [enabled            |-> config.enabled,
     maxEmailsPerMinute |-> IF config.maxEmailsPerMinute = 0 THEN 10
                            ELSE config.maxEmailsPerMinute,
     maxEmailsPerHour   |-> IF config.maxEmailsPerHour = 0 THEN 100
                            ELSE config.maxEmailsPerHour,
     emailTimestamps    |-> <<>>,
     stats |-> [totalEmails |-> 0, rateLimitedEmails |-> 0,
                averageWaitTime |-> [num |-> 0, den |-> 1], maxWaitTime |-> 0],
     burstLimit    |-> IF config.burstLimit = 0
                       THEN 2 * (IF config.maxEmailsPerMinute = 0 THEN 10
                                 ELSE config.maxEmailsPerMinute)
                       ELSE config.burstLimit,
     burstWindow   |-> 5 * 60 * 1000,
     burstCooldown |-> IF config.burstCooldown = 0 THEN 15 * 60 * 1000
                       ELSE config.burstCooldown,
     lastBurst     |-> 0]

canBurst_inclusive(L, now) == (now - L.lastBurst) >= L.burstCooldown

\* (now - this.lastBurst) > this.burstCooldown
canBurst(L, now) == (now - L.lastBurst) > L.burstCooldown

effectiveMinuteLimit_normal(L, now) == L.maxEmailsPerMinute

\* this.canBurst() ? this.burstLimit : this.maxEmailsPerMinute
effectiveMinuteLimit(L, now) ==
    IF canBurst(L, now) THEN L.burstLimit ELSE L.maxEmailsPerMinute

\* BurstRateLimiter._calculateWaitTime (the override)
BurstRateLimiter_calculateWaitTime(L, now) ==
    LET minuteCount == _getEmailCountInWindow(L, now, minuteWindow)
        hourCount   == _getEmailCountInWindow(L, now, hourWindow)
    IN  IF minuteCount >= effectiveMinuteLimit(L, now)
        THEN Max(0, _getOldestTimestampInWindow(L, now, minuteWindow) + minuteWindow - now)
        ELSE IF hourCount >= L.maxEmailsPerHour
        THEN Max(0, _getOldestTimestampInWindow(L, now, hourWindow) + hourWindow - now)
        ELSE 0

\* recordBurst: this.lastBurst = Date.now()
recordBurst(L, now) == [L EXCEPT !.lastBurst = now]

\* this._calculateWaitTime(now): the method of the object's class
this_calculateWaitTime(L, now) ==
    IF "lastBurst" \in DOMAIN L THEN BurstRateLimiter_calculateWaitTime(L, now)
    ELSE _calculateWaitTime(L, now)

_cleanupOldTimestamps_keepAll(L, now) == L

_cleanupOldTimestamps(L, now) ==
    [L EXCEPT !.emailTimestamps = SelectTimes(@, now - hourWindow)]

\* (averageWaitTime * (rateLimitedEmails - 1) + waitTime) / rateLimitedEmails,
\* as an exact fraction in lowest terms; n is the incremented rateLimitedEmails
NextAverage(avg, n, waitTime) ==
    LET num == avg.num * (n - 1) + waitTime * avg.den
        den == avg.den * n
        g   == GCD(num, den)
    IN  [num |-> num \div g, den |-> den \div g]

\* The statistics of a throttled call (lines 44-48)
RecordWait(L, waitTime) ==
    [L EXCEPT !.stats.rateLimitedEmails = @ + 1,
              !.stats.averageWaitTime =
                  NextAverage(@, L.stats.rateLimitedEmails + 1, waitTime),
              !.stats.maxWaitTime = Max(@, waitTime)]

RecordSend_uncounted(L, now) ==
    _cleanupOldTimestamps([L EXCEPT !.emailTimestamps = Append(@, now)], now)

\* Record this email send (lines 54-58): push(now), totalEmails++, cleanup
RecordSend(L, now) ==
    _cleanupOldTimestamps(
        [L EXCEPT !.emailTimestamps = Append(@, now), !.stats.totalEmails = @ + 1],
        now)

\* The activation of waitIfNeeded.  pc: "none", "delay" (awaiting _delay),
\* "returned".  calls counts the calls this caller made.
RLIdle == [pc |-> "none", now |-> 0, wake |-> 0, waitTime |-> 0, calls |-> 0]

Disabled_never(L) == FALSE

\* if (!this.enabled)
Disabled(L) == ~L.enabled

\* waitIfNeeded up to its await (or to its end): the limiter and the activation
waitIfNeeded(L, a, now) ==
    IF Disabled(L)
    THEN [limiter |-> L,
          act |-> [a EXCEPT !.pc = "returned", !.now = now, !.waitTime = 0,
                            !.calls = @ + 1]]
    ELSE LET waitTime == this_calculateWaitTime(L, now) IN
         IF waitTime > 0
         THEN [limiter |-> RecordWait(L, waitTime),
               act |-> [a EXCEPT !.pc = "delay", !.now = now, !.wake = now + waitTime,
                                 !.waitTime = waitTime, !.calls = @ + 1]]
         ELSE [limiter |-> RecordSend(L, now),
               act |-> [a EXCEPT !.pc = "returned", !.now = now, !.waitTime = 0,
                                 !.calls = @ + 1]]

\* waitIfNeeded after its await: the send is recorded under the time read
\* before the wait
waitIfNeededResumed(L, a) ==
    [limiter |-> RecordSend(L, a.now), act |-> [a EXCEPT !.pc = "returned"]]

canSendImmediately_minuteOnly(L, now) ==
    IF Disabled(L) THEN TRUE
    ELSE _getEmailCountInWindow(L, now, minuteWindow) < L.maxEmailsPerMinute

canSendImmediately(L, now) ==
    IF Disabled(L) THEN TRUE ELSE this_calculateWaitTime(L, now) = 0

\* getStatus: the snapshot it returns
getStatus(L, now) ==
    [enabled            |-> L.enabled,
     emailsInLastMinute |-> _getEmailCountInWindow(L, now, minuteWindow),
     emailsInLastHour   |-> _getEmailCountInWindow(L, now, hourWindow),
     maxEmailsPerMinute |-> L.maxEmailsPerMinute,
     maxEmailsPerHour   |-> L.maxEmailsPerHour,
     canSendImmediately |-> canSendImmediately(L, now),
     waitTime           |-> this_calculateWaitTime(L, now),
     statistics         |-> L.stats]

reset_timestampsOnly(L) == [L EXCEPT !.emailTimestamps = <<>>]

reset_all(L) ==
    [L EXCEPT !.emailTimestamps = <<>>, !.lastBurst = 0,
              !.stats = [totalEmails |-> 0, rateLimitedEmails |-> 0,
                         averageWaitTime |-> [num |-> 0, den |-> 1],
                         maxWaitTime |-> 0]]

\* reset: emailTimestamps = [] and stats = the four zeros
reset(L) ==
    [L EXCEPT !.emailTimestamps = <<>>,
              !.stats = [totalEmails |-> 0, rateLimitedEmails |-> 0,
                         averageWaitTime |-> [num |-> 0, den |-> 1],
                         maxWaitTime |-> 0]]

\* updateConfig({ enabled })
updateConfig(L, config) == [L EXCEPT !.enabled = config.enabled]

(***************************************************************************)
(* AdaptiveRateLimiter (utils/rateLimiter.js)                              *)
(*                                                                         *)
(* successRate is kept as an exact decimal, the digits <<d0, d1, ..., dk>> *)
(* of d0.d1...dk without trailing zeros: every value it takes is a finite  *)
(* decimal, and none of them equals 0.8 or 0.95, so the comparisons of the *)
(* source are decided by the leading digits.  NaN is the number the source *)
(* computes from an undefined cap.                                         *)
(***************************************************************************)
NaN == 0 - 2

\* Math.max, Math.min and Math.floor(n * tenths / 10) of JavaScript numbers
MathMax(a, b) == IF a = NaN \/ b = NaN THEN NaN ELSE Max(a, b)
MathMin(a, b) == IF a = NaN \/ b = NaN THEN NaN ELSE Min(a, b)
FloorTimes(n, tenths) == IF n = NaN THEN NaN ELSE (n * tenths) \div 10

\* The configurations an AdaptiveRateLimiter is constructed with; 0 stands for
\* a maxEmailsPerMinute that is not given
AdaptiveConfigs ==
    [enabled : {TRUE}, maxEmailsPerMinute : {0, 1, 4, 10, 15}, maxEmailsPerHour : {0}]

\* constructor: maxLimit = config.maxEmailsPerMinute * 2 (undefined * 2 is NaN)
AdaptiveRateLimiter(config) ==
    [enabled            |-> RateLimiter(config).enabled,
     maxEmailsPerMinute |-> RateLimiter(config).maxEmailsPerMinute,
     maxEmailsPerHour   |-> RateLimiter(config).maxEmailsPerHour,
     emailTimestamps    |-> RateLimiter(config).emailTimestamps,
     stats              |-> RateLimiter(config).stats,
     successRate        |-> <<1>>,
     minLimit           |-> 1,
     maxLimit           |-> IF config.maxEmailsPerMinute = 0 THEN NaN
                            ELSE config.maxEmailsPerMinute * 2]

\* The digits of 9 * (the number with digits ds) + carry, one digit longer
RECURSIVE TimesNine(_, _)
TimesNine(ds, carry) ==
    IF ds = <<>> THEN <<carry>>
    ELSE LET p == 9 * ds[Len(ds)] + carry IN
         Append(TimesNine(SubSeq(ds, 1, Len(ds) - 1), p \div 10), p % 10)

RECURSIVE TrimZeros(_)
TrimZeros(ds) ==
    IF Len(ds) > 1 /\ ds[Len(ds)] = 0 THEN TrimZeros(SubSeq(ds, 1, Len(ds) - 1)) ELSE ds

\* successRate * (1 - adaptationFactor) + (success ? 1 : 0) * adaptationFactor,
\* with adaptationFactor = 0.1
NextSuccessRate(rate, success) ==
    LET nine == TimesNine(rate, 0) IN     \* rate * 0.9: nine[1] = 0
    TrimZeros(IF ~success THEN nine
              ELSE IF nine[2] = 9 THEN <<1>>           \* 0.9 + 0.1
              ELSE [nine EXCEPT ![2] = @ + 1])

RateHigh_ninety(rate) == rate[1] = 1 \/ (Len(rate) >= 2 /\ rate[2] = 9)

\* successRate < 0.8
RateLow(rate) == rate[1] = 0 /\ (Len(rate) = 1 \/ rate[2] < 8)

\* successRate > 0.95
RateHigh(rate) ==
    \/ rate[1] = 1
    \/ /\ Len(rate) >= 3
       /\ rate[2] = 9
       /\ (rate[3] >= 6 \/ (rate[3] = 5 /\ Len(rate) >= 4))

Shrink_rounded(L) == MathMax(L.minLimit, FloorTimes(L.maxEmailsPerMinute, 9) + 1)

\* Math.max(this.minLimit, Math.floor(this.maxEmailsPerMinute * 0.9))
Shrink(L) == MathMax(L.minLimit, FloorTimes(L.maxEmailsPerMinute, 9))

\* Math.min(this.maxLimit, Math.floor(this.maxEmailsPerMinute * 1.1))
Grow(L) == MathMin(L.maxLimit, FloorTimes(L.maxEmailsPerMinute, 11))

recordResult(L, success) ==
    LET L1 == [L EXCEPT !.successRate = NextSuccessRate(@, success)] IN
    IF RateLow(L1.successRate) THEN [L1 EXCEPT !.maxEmailsPerMinute = Shrink(L1)]
    ELSE IF RateHigh(L1.successRate) THEN [L1 EXCEPT !.maxEmailsPerMinute = Grow(L1)]
    ELSE L1

(***************************************************************************)
(* Input validation (config/validation.js)                                 *)
(*                                                                         *)
(* A recipient is [type, email, name, customData]: type is typeof the      *)
(* array element, email the address ("undefined" when absent), name and    *)
(* customData the typeof of those properties.  A validator yields "ok" or  *)
(* the kind of Error it throws.                                            *)
(***************************************************************************)
Rcpt(type, email, name, customData) ==
    [type |-> type, email |-> email, name |-> name, customData |-> customData]

ValidRecipients ==
    {Rcpt("string", "a@x.io", "undefined", "undefined"),
     Rcpt("object", "b@y.org", "string", "object"),
     Rcpt("object", "c@z.net", "undefined", "undefined")}

InvalidRecipients ==
    {Rcpt("string", "bad-address", "undefined", "undefined"),
     Rcpt("string", "two@@x.io", "undefined", "undefined"),
     Rcpt("object", "undefined", "undefined", "undefined"),
     Rcpt("object", "no@dot", "string", "undefined"),
     Rcpt("object", "c@z.net", "number", "undefined"),
     Rcpt("object", "c@z.net", "undefined", "string"),
     Rcpt("number", "undefined", "undefined", "undefined")}

RECURSIVE SeqsUpTo(_, _)
SeqsUpTo(S, n) ==
    IF n = 0 THEN {<<>>}
    ELSE LET shorter == SeqsUpTo(S, n - 1) IN
         shorter \cup {Append(s, x) : s \in {q \in shorter : Len(q) = n - 1}, x \in S}

\* /^[^\s@]+@[^\s@]+\.[^\s@]+$/ on the characters of email
isValidEmail(email) ==
    /\ email # "undefined"
    /\ LET s == Chars[email] IN
       \E i \in DOMAIN s : \E j \in DOMAIN s :
           /\ s[i] = "@" /\ i >= 2
           /\ s[j] = "." /\ j >= i + 2 /\ j <= Len(s) - 1
           /\ \A k \in DOMAIN s : k # i => s[k] \notin {"@", " "}

validateRecipient(recipient) ==
    IF recipient.type = "string"
    THEN IF isValidEmail(recipient.email) THEN "ok" ELSE "Invalid email address"
    ELSE IF recipient.type = "object"
    THEN IF recipient.email = "undefined" THEN "must have a valid email property"
         ELSE IF ~isValidEmail(recipient.email) THEN "Invalid email address"
         ELSE IF recipient.name \notin {"undefined", "string"} THEN "name must be a string"
         ELSE IF recipient.customData \notin {"undefined", "object"}
              THEN "customData must be an object"
         ELSE "ok"
    ELSE "Invalid recipient type"

\* The recipients argument: [isArray, items]; the items of an array are distinct
RecipientInputs ==
    {[isArray |-> FALSE, items |-> <<>>]} \cup
    {[isArray |-> TRUE, items |-> s] :
        s \in {q \in SeqsUpTo(ValidRecipients \cup InvalidRecipients, MaxBatch) :
                  \A i \in DOMAIN q : \A j \in DOMAIN q : q[i] = q[j] => i = j}}

validateRecipients(recipients) ==
    LET items == recipients.items IN
    IF ~recipients.isArray THEN "Recipients must be an array"
    ELSE IF Len(items) = 0 THEN "At least one recipient is required"
    ELSE IF \E i \in DOMAIN items : validateRecipient(items[i]) # "ok"
    THEN validateRecipient(
             items[CHOOSE i \in DOMAIN items :
                 /\ validateRecipient(items[i]) # "ok"
                 /\ \A j \in 1..(i - 1) : validateRecipient(items[j]) = "ok"])
    ELSE "ok"

\* An emailContent is "undefined" or [subject, text, html]: the typeof of each
\* property ("empty" is the empty string).  Attachments and templates are absent.
Contents ==
    {[subject |-> "string", text |-> "string", html |-> "undefined"],
     [subject |-> "string", text |-> "undefined", html |-> "string"],
     [subject |-> "undefined", text |-> "string", html |-> "undefined"],
     [subject |-> "number", text |-> "string", html |-> "undefined"],
     [subject |-> "string", text |-> "undefined", html |-> "undefined"],
     [subject |-> "string", text |-> "number", html |-> "undefined"],
     [subject |-> "none", text |-> "none", html |-> "none"]}

Falsy(type) == type \in {"undefined", "empty"}

validateEmailContent(emailContent) ==
    IF emailContent.subject = "none" THEN "Email content is required"
    ELSE IF Falsy(emailContent.subject) \/ emailContent.subject # "string"
    THEN "Email subject is required and must be a string"
    ELSE IF Falsy(emailContent.text) /\ Falsy(emailContent.html)
    THEN "Either text or HTML content is required"
    ELSE IF ~Falsy(emailContent.text) /\ emailContent.text # "string"
    THEN "Text content must be a string"
    ELSE IF ~Falsy(emailContent.html) /\ emailContent.html # "string"
    THEN "HTML content must be a string"
    ELSE "ok"

(***************************************************************************)
(* EmailSender (EmailSender.js)                                            *)
(***************************************************************************)
DayLength == 86400000

\* new Date(now).toDateString(): the calendar date, as a day number
toDateString(now) == now \div DayLength

Absent == 0 - 1     \* an option the caller did not give

\* The options an EmailSender is constructed with
SenderOptions ==
    [dailyLimit : 1..MaxDailyLimit, delayBetweenEmails : {Absent, 0},
     maxRetries : 1..MaxSenderRetries, retryDelay : {Absent}]

\* The rateLimit config an EmailSender is constructed with
SenderRateConfigs ==
    [enabled : {TRUE}, maxEmailsPerMinute : {1}, maxEmailsPerHour : {Absent}]

OrDefault(value, default) == IF value = Absent THEN default ELSE value

\* _mergeWithDefaults: { ...defaults.options, ...config.options }
_mergeWithDefaults(options, rateLimit) ==
    [options |->
        [dailyLimit         |-> OrDefault(options.dailyLimit, 100),
         delayBetweenEmails |-> OrDefault(options.delayBetweenEmails, 2000),
         maxRetries         |-> OrDefault(options.maxRetries, 3),
         retryDelay         |-> OrDefault(options.retryDelay, 1000)],
     rateLimit |->
        [enabled            |-> rateLimit.enabled,
         maxEmailsPerMinute |-> OrDefault(rateLimit.maxEmailsPerMinute, 10),
         maxEmailsPerHour   |-> OrDefault(rateLimit.maxEmailsPerHour, 100)]]

\* constructor: the EmailSender object (its retryLogic and rateLimiter are the
\* variables retryLogic and rateLimiter)
EmailSender(config, now) ==
    [options       |-> config.options,
     statistics    |-> [totalSent |-> 0, totalFailed |-> 0, totalAttempts |-> 0,
                        dailyCount |-> <<>>, errorBreakdown |-> <<>>],
     dailyCount    |-> 0,
     lastResetDate |-> toDateString(now)]

QuotaReached_strict(dailyCount, dailyLimit) == dailyCount > dailyLimit

\* if (this.dailyCount >= this.config.options.dailyLimit) throw
QuotaReached(dailyCount, dailyLimit) == dailyCount >= dailyLimit

_checkDailyLimit_everyCall(S, now) ==
    LET S1 == [S EXCEPT !.dailyCount = 0, !.lastResetDate = toDateString(now)]
    IN  [sender |-> S1, throws |-> QuotaReached(S1.dailyCount, S1.options.dailyLimit)]

\* _checkDailyLimit: the sender after the lazy reset, and whether it throws
_checkDailyLimit(S, now) ==
    LET today == toDateString(now)
        S1 == IF today # S.lastResetDate
              THEN [S EXCEPT !.dailyCount = 0, !.lastResetDate = today]
              ELSE S
    IN  [sender |-> S1, throws |-> QuotaReached(S1.dailyCount, S1.options.dailyLimit)]

\* _categorizeError: case-sensitive tests on the message as given
_categorizeError(error) ==
    LET s == Chars[error] IN
    IF includes(s, "authentication") \/ includes(s, "auth") THEN "authentication"
    ELSE IF includes(s, "network") \/ includes(s, "timeout") THEN "network"
    ELSE IF includes(s, "SMTP") \/ includes(s, "smtp") THEN "smtp"
    ELSE IF includes(s, "validation") \/ includes(s, "invalid") THEN "validation"
    ELSE IF includes(s, "rate") \/ includes(s, "limit") THEN "rate_limit"
    ELSE "other"

\* _categorizeError tabulated over the messages (evaluated once)
Category == [error \in Messages |-> _categorizeError(error)]

\* map[key] = (map[key] || 0) + 1
Increment(map, key) ==
    IF key \in DOMAIN map THEN [map EXCEPT ![key] = @ + 1] ELSE map @@ (key :> 1)

\* A SendResult (messageId and duration are not modelled)
SendResult(success, recipient, attempts, error) ==
    [success |-> success, recipient |-> recipient, attempts |-> attempts, error |-> error]

_updateStatistics_dailySent(S, result, now) ==
    LET st  == S.statistics
        st1 == [st EXCEPT !.totalAttempts = @ + result.attempts]
    IN  IF result.success
        THEN [S EXCEPT !.statistics =
                 [st1 EXCEPT !.totalSent = @ + 1,
                             !.dailyCount = Increment(@, toDateString(now))]]
        ELSE [S EXCEPT !.statistics =
                 [st1 EXCEPT !.totalFailed = @ + 1,
                             !.errorBreakdown = Increment(@, Category[result.error])]]

_updateStatistics_overwrite(S, result, now) ==
    LET st  == S.statistics
        st1 == [st EXCEPT !.totalAttempts = result.attempts]
        st2 == IF result.success
               THEN [st1 EXCEPT !.totalSent = @ + 1]
               ELSE [st1 EXCEPT !.totalFailed = @ + 1,
                                !.errorBreakdown =
                                    Increment(@, Category[result.error])]
    IN  [S EXCEPT !.statistics =
            [st2 EXCEPT !.dailyCount = Increment(@, toDateString(now))]]

_updateStatistics(S, result, now) ==
    LET st  == S.statistics
        st1 == [st EXCEPT !.totalAttempts = @ + result.attempts]
        st2 == IF result.success
               THEN [st1 EXCEPT !.totalSent = @ + 1]
               ELSE [st1 EXCEPT !.totalFailed = @ + 1,
                                !.errorBreakdown =
                                    Increment(@, Category[result.error])]
    IN  [S EXCEPT !.statistics =
            [st2 EXCEPT !.dailyCount = Increment(@, toDateString(now))]]

\* _normalizeRecipients: a string becomes { email: string }
_normalizeRecipients(items) ==
    [i \in DOMAIN items |->
        IF items[i].type = "string"
        THEN Rcpt("object", items[i].email, "undefined", "undefined")
        ELSE items[i]]

\* Errors the transport rejects sendMail with
TransportErrors == {"network timeout", "invalid credentials"}

\* Math.random() for the backoff of a send
SenderRandomTenths == {0}

\* The activation of sendToMultiple or sendSingle.  pc: "none"; "limit"
\* (awaiting waitIfNeeded); "transport" (awaiting sendMail); "backoff"
\* (awaiting executeWithRetry's _delay); "pacing" (awaiting _delay);
\* "returned"; "thrown".  attempts is the local of _sendToSingleRecipient.
\* pacings, trace and quota are history: the pacing delays awaited, the events
\* of the call in order, and dailyCount / lastResetDate as the call found them.
CallIdle ==
    [pc |-> "none", op |-> "none", recipients |-> <<>>, index |-> 0, results |-> <<>>,
     attempts |-> 0, wake |-> 0, error |-> "none", ops |-> 0, pacings |-> 0,
     trace |-> <<>>, quota |-> [count |-> 0, date |-> 0]]

\* An event of a call: "limit" (waitIfNeeded called), "transport" (sendMail
\* called), "settled" (sendMail fulfilled or rejected), "stats"
\* (_updateStatistics ran), "pacing" (the delay between emails started), each
\* with the index of the recipient it is for
Event(c, kind) == [c EXCEPT !.trace = Append(@, [kind |-> kind, index |-> c.index])]

(***************************************************************************)
(* Time.  Date.now() at construction is Epoch.  A timer (_delay) fires     *)
(* when the clock has reached its wake time; TimerElapse moves the clock   *)
(* to the earliest pending wake time and Tick moves it freely.             *)
(***************************************************************************)
Epoch == 10 * DayLength

\* Free clock advances between and during waitIfNeeded calls
Deltas == {1, minuteWindow - 1, minuteWindow}

PendingWakes ==
    {rl[p].wake : p \in {q \in Callers : rl[q].pc = "delay"}}
    \cup {retry[p].wake : p \in {q \in Callers : retry[q].pc = "delay"}}
    \cup {call[p].wake : p \in {q \in Callers : call[q].pc = "pacing"}}

TimerElapse ==
    LET later == {w \in PendingWakes : w > clock} IN
    /\ later # {}
    /\ clock' = CHOOSE w \in later : \A v \in later : w <= v
    /\ UNCHANGED <<ticks, rateLimiter, rl, released, retryLogic, retry, sender, call,
                   transportCalls, input, output>>

Tick ==
    /\ ticks < MaxTicks
    /\ \E d \in Deltas : clock' = clock + d
    /\ ticks' = ticks + 1
    /\ UNCHANGED <<rateLimiter, rl, released, retryLogic, retry, sender, call,
                   transportCalls, input, output>>

\* The clock passes to the same time of the next day
Midnight ==
    /\ ticks < MaxDays
    /\ clock' = clock + DayLength
    /\ ticks' = ticks + 1
    /\ UNCHANGED <<rateLimiter, rl, released, retryLogic, retry, sender, call,
                   transportCalls, input, output>>

(***************************************************************************)
(* Direct calls of RateLimiter.waitIfNeeded, one after the other           *)
(***************************************************************************)
WaitIfNeeded(p) ==
    /\ rl[p].pc \in {"none", "returned"}
    /\ rl[p].calls < MaxCalls
    /\ LET w == waitIfNeeded(rateLimiter, rl[p], clock) IN
       /\ rateLimiter' = w.limiter
       /\ rl' = [rl EXCEPT ![p] = w.act]
       /\ released' = IF w.act.pc = "returned" THEN Append(released, clock) ELSE released
    /\ UNCHANGED <<clock, ticks, retryLogic, retry, sender, call, transportCalls,
                   input, output>>

\* The continuation of waitIfNeeded after await this._delay(waitTime)
WaitIfNeededResume(p) ==
    /\ rl[p].pc = "delay"
    /\ clock >= rl[p].wake
    /\ LET w == waitIfNeededResumed(rateLimiter, rl[p]) IN
       /\ rateLimiter' = w.limiter
       /\ rl' = [rl EXCEPT ![p] = w.act]
    /\ released' = Append(released, clock)
    /\ UNCHANGED <<clock, ticks, retryLogic, retry, sender, call, transportCalls,
                   input, output>>

\* rateLimiter.updateConfig({ enabled }); input is the history of its arguments
UpdateConfig ==
    /\ Len(input) < MaxUpdates
    /\ \E config \in [enabled : BOOLEAN] :
         /\ rateLimiter' = updateConfig(rateLimiter, config)
         /\ input' = Append(input, config)
    /\ UNCHANGED <<clock, ticks, rl, released, retryLogic, retry, sender, call,
                   transportCalls, output>>

\* rateLimiter.canSendImmediately(); output is its latest answer, with the
\* enabled flag it was given under
CanSendImmediately ==
    /\ output' = <<[enabled |-> rateLimiter.enabled,
                     result  |-> canSendImmediately(rateLimiter, clock)]>>
    /\ UNCHANGED <<clock, ticks, rateLimiter, rl, released, retryLogic, retry, sender,
                   call, transportCalls, input>>

\* rateLimiter.getStatus(); output is the snapshot it returned last
GetStatus ==
    /\ output' = <<getStatus(rateLimiter, clock)>>
    /\ UNCHANGED <<clock, ticks, rateLimiter, rl, released, retryLogic, retry, sender,
                   call, transportCalls, input>>

\* rateLimiter.reset(), between two waitIfNeeded calls
Reset ==
    /\ \A p \in Callers : rl[p].pc # "delay"
    /\ rateLimiter' = reset(rateLimiter)
    /\ UNCHANGED <<clock, ticks, rl, released, retryLogic, retry, sender, call,
                   transportCalls, input, output>>

\* rateLimiter.recordBurst(); input is the history of the times of its calls
RecordBurst ==
    /\ Len(input) < MaxBursts
    /\ rateLimiter' = recordBurst(rateLimiter, clock)
    /\ input' = Append(input, clock)
    /\ UNCHANGED <<clock, ticks, rl, released, retryLogic, retry, sender, call,
                   transportCalls, output>>

\* rateLimiter.canBurst(); output is its latest answer
CanBurst ==
    /\ output' = <<[canBurst |-> canBurst(rateLimiter, clock)]>>
    /\ UNCHANGED <<clock, ticks, rateLimiter, rl, released, retryLogic, retry, sender,
                   call, transportCalls, input>>

(***************************************************************************)
(* Calls of AdaptiveRateLimiter.recordResult: any results up to MaxRecords *)
(* calls, and failures alone up to MaxFailures calls.  output is the       *)
(* history of the calls.                                                   *)
(***************************************************************************)
RecordResult ==
    \E success \in BOOLEAN :
        /\ \/ Len(output) < MaxRecords
           \/ /\ ~success
              /\ Len(output) < MaxFailures
              /\ \A i \in DOMAIN output : ~output[i].success
        /\ rateLimiter' = recordResult(rateLimiter, success)
        /\ output' = Append(output,
                       [success |-> success,
                        before  |-> rateLimiter.maxEmailsPerMinute,
                        after   |-> rateLimiter'.maxEmailsPerMinute,
                        rate    |-> rateLimiter'.successRate])
        /\ UNCHANGED <<clock, ticks, rl, released, retryLogic, retry, sender, call,
                       transportCalls, input>>

(***************************************************************************)
(* Direct calls of RetryLogic.executeWithRetry(fn); fn is any operation    *)
(* that fulfils, or rejects with one of Messages                           *)
(***************************************************************************)
ExecuteWithRetry(p) ==
    /\ retry[p].pc \in {"none", "returned", "thrown"}
    /\ retry[p].runs < MaxRuns
    /\ retry' = [retry EXCEPT ![p] = executeWithRetry(retryLogic, retry[p])]
    /\ UNCHANGED <<clock, ticks, rateLimiter, rl, released, retryLogic, sender, call,
                   transportCalls, input, output>>

FnFulfil(p) ==
    /\ retry[p].pc = "fn"
    /\ retry' = [retry EXCEPT ![p] = ExecFulfilled(retry[p])]
    /\ UNCHANGED <<clock, ticks, rateLimiter, rl, released, retryLogic, sender, call,
                   transportCalls, input, output>>

FnReject(p) ==
    /\ retry[p].pc = "fn"
    /\ \E error \in Messages : \E random \in RandomTenths :
           retry' = [retry EXCEPT ![p] =
                        ExecRejected(retryLogic, retry[p], error, random, clock)]
    /\ UNCHANGED <<clock, ticks, rateLimiter, rl, released, retryLogic, sender, call,
                   transportCalls, input, output>>

\* The continuation of executeWithRetry after await this._delay(delay).
\* executeWithRetry never reads the clock: here the timer firing is an event.
RetryResume(p) ==
    /\ retry[p].pc = "delay"
    /\ retry' = [retry EXCEPT ![p] = ExecResumed(retryLogic, retry[p])]
    /\ UNCHANGED <<clock, ticks, rateLimiter, rl, released, retryLogic, sender, call,
                   transportCalls, input, output>>

(***************************************************************************)
(* EmailSender.sendToMultiple and sendSingle.  An action is the code run   *)
(* from one await to the next.  The fragments below give the next value of *)
(* every variable a sender action changes: c, S, r, n are the activation,  *)
(* the sender, the retry activation and the transport-call count so far.   *)
(***************************************************************************)
SenderUnchanged == UNCHANGED <<clock, ticks, retryLogic, input, output>>

\* Top of the for loop body for the recipient at c.index:
\* this.rateLimiter.waitIfNeeded() up to its await
Iterate(p, c, S, r, n) ==
    LET w == waitIfNeeded(rateLimiter, rl[p], clock) IN
    /\ rateLimiter' = w.limiter
    /\ rl' = [rl EXCEPT ![p] = w.act]
    /\ released' = IF w.act.pc = "returned" THEN Append(released, clock) ELSE released
    /\ call' = [call EXCEPT ![p] = [Event(c, "limit") EXCEPT !.pc = "limit"]]
    /\ sender' = S
    /\ retry' = [retry EXCEPT ![p] = r]
    /\ transportCalls' = n

Advance_stopAfterFailure(p, c, S, r, n) ==
    IF c.index < Len(c.recipients) /\ c.results[Len(c.results)].success
    THEN Iterate(p, [c EXCEPT !.index = @ + 1], S, r, n)
    ELSE /\ call' = [call EXCEPT ![p] = [c EXCEPT !.pc = "returned"]]
         /\ sender' = S
         /\ retry' = [retry EXCEPT ![p] = r]
         /\ transportCalls' = n
         /\ UNCHANGED <<rateLimiter, rl, released>>

\* The next recipient, or return results
Advance(p, c, S, r, n) ==
    IF c.index < Len(c.recipients)
    THEN Iterate(p, [c EXCEPT !.index = @ + 1], S, r, n)
    ELSE /\ call' = [call EXCEPT ![p] = [c EXCEPT !.pc = "returned"]]
         /\ sender' = S
         /\ retry' = [retry EXCEPT ![p] = r]
         /\ transportCalls' = n
         /\ UNCHANGED <<rateLimiter, rl, released>>

Paced_never(S) == FALSE

\* if (this.config.options.delayBetweenEmails > 0)
Paced(S) == S.options.delayBetweenEmails > 0

\* _sendToSingleRecipient returned result.  sendToMultiple: results.push,
\* _updateStatistics, then the pacing delay when delayBetweenEmails > 0.
\* sendSingle: the result is returned.
Settle(p, c, S, r, n, result) ==
    LET c1 == [c EXCEPT !.results = Append(@, result)] IN
    IF c.op = "sendSingle"
    THEN /\ call' = [call EXCEPT ![p] = [c1 EXCEPT !.pc = "returned"]]
         /\ sender' = S
         /\ retry' = [retry EXCEPT ![p] = r]
         /\ transportCalls' = n
         /\ UNCHANGED <<rateLimiter, rl, released>>
    ELSE LET S1 == _updateStatistics(S, result, clock)
             c2 == Event(c1, "stats")
         IN  IF Paced(S1)
             THEN /\ call' = [call EXCEPT ![p] =
                         [Event(c2, "pacing") EXCEPT
                              !.pc = "pacing",
                              !.wake = clock + S1.options.delayBetweenEmails,
                              !.pacings = @ + 1]]
                  /\ sender' = S1
                  /\ retry' = [retry EXCEPT ![p] = r]
                  /\ transportCalls' = n
                  /\ UNCHANGED <<rateLimiter, rl, released>>
             ELSE Advance(p, c2, S1, r, n)

CountAttempt_inStatistics(S, c) ==
    [S EXCEPT !.dailyCount = @ + 1, !.statistics.totalAttempts = @ + 1]

CountAttempt_oncePerRecipient(S, c) ==
    IF c.attempts = 0 THEN [S EXCEPT !.dailyCount = @ + 1] ELSE S

\* sendEmail: this.dailyCount++ (beside attempts++), on every attempt
CountAttempt(S, c) == [S EXCEPT !.dailyCount = @ + 1]

Attempt_throughLimiter(p, c, S, r, n) ==
    IF r.pc = "fn"
    THEN /\ call' = [call EXCEPT ![p] =
                [Event(c, "transport") EXCEPT !.pc = "transport", !.attempts = @ + 1]]
         /\ sender' = CountAttempt(S, c)
         /\ retry' = [retry EXCEPT ![p] = r]
         /\ transportCalls' = n + 1
         /\ rateLimiter' = IF c.attempts >= 1 THEN RecordSend(rateLimiter, clock)
                           ELSE rateLimiter
         /\ UNCHANGED <<rl, released>>
    ELSE Settle(p, c, S, r, n,
                SendResult(FALSE, c.recipients[c.index].email, c.attempts, r.error))

\* r is the retry activation after the loop head.  Either fn = sendEmail runs up
\* to await this.transporter.sendMail (attempts++, this.dailyCount++), or the
\* loop is over and the catch of _sendToSingleRecipient builds the failed result.
Attempt(p, c, S, r, n) ==
    IF r.pc = "fn"
    THEN /\ call' = [call EXCEPT ![p] =
                [Event(c, "transport") EXCEPT !.pc = "transport", !.attempts = @ + 1]]
         /\ sender' = CountAttempt(S, c)
         /\ retry' = [retry EXCEPT ![p] = r]
         /\ transportCalls' = n + 1
         /\ UNCHANGED <<rateLimiter, rl, released>>
    ELSE Settle(p, c, S, r, n,
                SendResult(FALSE, c.recipients[c.index].email, c.attempts, r.error))

Idle(p) == call[p].pc \in {"none", "returned", "thrown"}

Throw(p, op, error) ==
    call' = [call EXCEPT ![p] =
                [CallIdle EXCEPT !.pc = "thrown", !.op = op, !.error = error,
                                 !.ops = call[p].ops + 1]]

RejectInput_afterQuotaCheck(p, error) ==
    /\ Throw(p, "sendToMultiple", error)
    /\ sender' = _checkDailyLimit(sender, clock).sender
    /\ UNCHANGED <<rateLimiter, rl, released, retry, transportCalls>>

\* validateRecipients or validateEmailContent throws: nothing was touched yet
RejectInput(p, error) ==
    /\ Throw(p, "sendToMultiple", error)
    /\ UNCHANGED <<rateLimiter, rl, released, retry, sender, transportCalls>>

\* The arguments of sendToMultiple, by what validation makes of them
RecipientErrors == {validateRecipients(r) : r \in RecipientInputs} \ {"ok"}
AcceptedRecipients == {r \in RecipientInputs : validateRecipients(r) = "ok"}
ContentErrors == {validateEmailContent(c) : c \in Contents} \ {"ok"}
AcceptedContents == {c \in Contents : validateEmailContent(c) = "ok"}

\* sendToMultiple(recipients, emailContent) up to its first await, or to its
\* throw: validateRecipients, validateEmailContent, _checkDailyLimit, then the
\* first waitIfNeeded
SendToMultiple(p) ==
    /\ Idle(p)
    /\ call[p].ops < MaxOps
    /\ \/ \E error \in RecipientErrors : RejectInput(p, error)
       \/ /\ AcceptedRecipients # {}
          /\ \E error \in ContentErrors : RejectInput(p, error)
       \/ /\ AcceptedContents # {}
          /\ \E recipients \in AcceptedRecipients :
               LET check == _checkDailyLimit(sender, clock) IN
               IF check.throws
               THEN /\ Throw(p, "sendToMultiple", "Daily email limit reached")
                    /\ sender' = check.sender
                    /\ UNCHANGED <<rateLimiter, rl, released, retry, transportCalls>>
               ELSE Iterate(p,
                        [CallIdle EXCEPT !.op = "sendToMultiple",
                                         !.recipients = _normalizeRecipients(recipients.items),
                                         !.index = 1, !.ops = call[p].ops + 1,
                                         !.quota = [count |-> sender.dailyCount,
                                                    date  |-> sender.lastResetDate]],
                        check.sender, retry[p], transportCalls)
    /\ SenderUnchanged

\* await this.rateLimiter.waitIfNeeded() completed: _sendToSingleRecipient runs
\* executeWithRetry(sendEmail) up to the first await
StartSend(p) ==
    /\ call[p].pc = "limit"
    /\ rl[p].pc = "returned"
    /\ Attempt(p, [call[p] EXCEPT !.attempts = 0], sender,
               executeWithRetry(retryLogic, retry[p]), transportCalls)
    /\ SenderUnchanged

SendSingle_checked(p) ==
    /\ Idle(p)
    /\ call[p].ops < MaxOps
    /\ \E recipient \in ValidRecipients :
         LET check == _checkDailyLimit(sender, clock) IN
         IF check.throws
         THEN /\ Throw(p, "sendSingle", "Daily email limit reached")
              /\ sender' = check.sender
              /\ UNCHANGED <<rateLimiter, rl, released, retry, transportCalls>>
         ELSE Attempt(p, [CallIdle EXCEPT !.op = "sendSingle",
                                          !.recipients = _normalizeRecipients(<<recipient>>),
                                          !.index = 1, !.ops = call[p].ops + 1],
                      check.sender, executeWithRetry(retryLogic, retry[p]), transportCalls)
    /\ SenderUnchanged

\* sendSingle(recipient, emailContent): no validation, no quota check, no limiter
SendSingle(p) ==
    /\ Idle(p)
    /\ call[p].ops < MaxOps
    /\ \E recipient \in ValidRecipients :
         Attempt(p, [CallIdle EXCEPT !.op = "sendSingle",
                                     !.recipients = _normalizeRecipients(<<recipient>>),
                                     !.index = 1, !.ops = call[p].ops + 1],
                 sender, executeWithRetry(retryLogic, retry[p]), transportCalls)
    /\ SenderUnchanged

\* transporter.sendMail fulfilled: sendEmail returns the successful result
TransportFulfil(p) ==
    /\ call[p].pc = "transport"
    /\ Settle(p, Event(call[p], "settled"), sender, ExecFulfilled(retry[p]), transportCalls,
              SendResult(TRUE, call[p].recipients[call[p].index].email,
                         call[p].attempts, "none"))
    /\ SenderUnchanged

\* transporter.sendMail rejected: the catch block of executeWithRetry
TransportReject(p) ==
    /\ call[p].pc = "transport"
    /\ \E error \in TransportErrors : \E random \in SenderRandomTenths :
         LET r == ExecRejected(retryLogic, retry[p], error, random, clock) IN
         IF r.pc = "delay"
         THEN /\ call' = [call EXCEPT ![p] =
                     [Event(call[p], "settled") EXCEPT !.pc = "backoff"]]
              /\ retry' = [retry EXCEPT ![p] = r]
              /\ UNCHANGED <<rateLimiter, rl, released, sender, transportCalls>>
         ELSE Attempt(p, Event(call[p], "settled"), sender, r, transportCalls)
    /\ SenderUnchanged

\* The backoff delay elapsed: attempt++, the loop head, the next sendEmail
BackoffResume(p) ==
    /\ call[p].pc = "backoff"
    /\ clock >= retry[p].wake
    /\ Attempt(p, call[p], sender, ExecResumed(retryLogic, retry[p]), transportCalls)
    /\ SenderUnchanged

\* The pacing delay elapsed: the next recipient, or return
PacingResume(p) ==
    /\ call[p].pc = "pacing"
    /\ clock >= call[p].wake
    /\ Advance(p, call[p], sender, retry[p], transportCalls)
    /\ SenderUnchanged

\* this._updateStatistics(result) for a failed result with any of the error
\* messages; input is the history of the messages counted
CountFailure ==
    /\ Len(input) < MaxCounted
    /\ \E error \in Messages :
         /\ sender' = _updateStatistics(sender, SendResult(FALSE, "a@x.io", 1, error), clock)
         /\ input' = Append(input, error)
    /\ UNCHANGED <<clock, ticks, rateLimiter, rl, released, retryLogic, retry, call,
                   transportCalls, output>>

(***************************************************************************)
(* RetryLogic.getRetryStatistics (static, pure)                            *)
(***************************************************************************)
\* n / d as a fraction in lowest terms
Fraction(n, d) == LET g == GCD(n, d) IN [num |-> n \div g, den |-> d \div g]

StatsStep_retriedOnly(stats, result) ==
    LET s1 == [stats EXCEPT !.totalAttempts = @ + result.attempts] IN
    IF result.attempts = 1 THEN s1
    ELSE [s1 EXCEPT !.retryDistribution = Increment(@, result.attempts)]

StatsStep_firstTryIfSuccess(stats, result) ==
    LET s1 == [stats EXCEPT !.totalAttempts = @ + result.attempts]
        s2 == IF result.success
              THEN [s1 EXCEPT !.successfulOnFirstTry = @ + 1]
              ELSE [s1 EXCEPT !.failedAfterAllRetries = @ + 1]
    IN  [s2 EXCEPT !.retryDistribution = Increment(@, result.attempts)]

\* The body of results.forEach
StatsStep(stats, result) ==
    LET s1 == [stats EXCEPT !.totalAttempts = @ + result.attempts]
        s2 == IF result.success
              THEN IF result.attempts = 1
                   THEN [s1 EXCEPT !.successfulOnFirstTry = @ + 1]
                   ELSE [s1 EXCEPT !.successfulAfterRetry = @ + 1]
              ELSE [s1 EXCEPT !.failedAfterAllRetries = @ + 1]
    IN  [s2 EXCEPT !.retryDistribution = Increment(@, result.attempts)]

RECURSIVE StatsFold(_, _)
StatsFold(stats, results) ==
    IF results = <<>> THEN stats
    ELSE StatsFold(StatsStep(stats, Head(results)), Tail(results))

getRetryStatistics(results) ==
    LET stats == [totalAttempts |-> 0, successfulOnFirstTry |-> 0,
                  successfulAfterRetry |-> 0, failedAfterAllRetries |-> 0,
                  averageAttempts |-> Fraction(0, 1), retryDistribution |-> <<>>]
    IN  IF Len(results) = 0 THEN stats
        ELSE LET folded == StatsFold(stats, results) IN
             [folded EXCEPT !.averageAttempts =
                 Fraction(folded.totalAttempts, Len(results))]

\* The result sets getRetryStatistics is applied to
ResultSets ==
    SeqsUpTo({SendResult(success, "a@x.io", attempts, IF success THEN "none" ELSE "network timeout") :
                  success \in BOOLEAN, attempts \in 1..MaxRetriesOpt},
             MaxResults)

GetRetryStatistics ==
    /\ output = <<>>
    /\ output' = <<getRetryStatistics(input)>>
    /\ UNCHANGED <<clock, ticks, rateLimiter, rl, released, retryLogic, retry, sender,
                   call, transportCalls, input>>

(***************************************************************************)
(* The statistics queries of the limiters.  A later spread or key of the   *)
(* object literal overrides an earlier one: f @@ g keeps f where both are  *)
(* defined.                                                                *)
(***************************************************************************)
\* getStatistics: { ...this.stats, rateLimitHitPercentage, currentStatus }
getStatistics(L, now) ==
    [rateLimitHitPercentage |->
         IF L.stats.totalEmails > 0
         THEN Fraction(L.stats.rateLimitedEmails * 100, L.stats.totalEmails)
         ELSE Fraction(0, 1),
     currentStatus |-> getStatus(L, now)]
    @@ L.stats

\* getAdaptiveStatistics: { ...this.getStatistics(), successRate, currentLimit,
\* adaptationActive }
getAdaptiveStatistics(L, now) ==
    [successRate      |-> L.successRate,
     currentLimit     |-> L.maxEmailsPerMinute,
     adaptationActive |-> RateLow(L.successRate) \/ RateHigh(L.successRate)]
    @@ getStatistics(L, now)

\* rateLimiter.getAdaptiveStatistics(); input is the object it returned last
GetAdaptiveStatistics ==
    /\ input' = <<getAdaptiveStatistics(rateLimiter, clock)>>
    /\ UNCHANGED <<clock, ticks, rateLimiter, rl, released, retryLogic, retry, sender,
                   call, transportCalls, output>>

(***************************************************************************)
(* Specifications                                                          *)
(***************************************************************************)
DefaultConfig ==
    _mergeWithDefaults(
        [dailyLimit |-> Absent, delayBetweenEmails |-> Absent, maxRetries |-> Absent,
         retryDelay |-> Absent],
        [enabled |-> TRUE, maxEmailsPerMinute |-> Absent, maxEmailsPerHour |-> Absent])

\* Everything idle, every object constructed with the defaults
InitIdle ==
    /\ clock = Epoch
    /\ ticks = 0
    /\ rl = [p \in Callers |-> RLIdle]
    /\ released = <<>>
    /\ retry = [p \in Callers |-> RetryIdle]
    /\ call = [p \in Callers |-> CallIdle]
    /\ transportCalls = 0
    /\ output = <<>>

\* An EmailSender constructed with any of the configurations, used by one caller
Init ==
    /\ InitIdle
    /\ \E options \in SenderOptions : \E rateLimit \in SenderRateConfigs :
         LET config == _mergeWithDefaults(options, rateLimit) IN
         /\ sender = EmailSender(config, Epoch)
         /\ retryLogic = RetryLogic(config.options)
         /\ rateLimiter = RateLimiter(config.rateLimit)
    /\ input = <<>>

Next ==
    \/ SendToMultiple(1)
    \/ SendSingle(1)
    \/ WaitIfNeededResume(1)
    \/ StartSend(1)
    \/ TransportFulfil(1)
    \/ TransportReject(1)
    \/ BackoffResume(1)
    \/ PacingResume(1)
    \/ TimerElapse
    \/ Midnight

Spec == Init /\ [][Next]_vars

\* Every transport call and every timed suspension eventually completes, and
\* the continuation of every completed await runs
Fairness ==
    /\ WF_vars(TimerElapse)
    /\ WF_vars(WaitIfNeededResume(1))
    /\ WF_vars(StartSend(1))
    /\ WF_vars(TransportFulfil(1) \/ TransportReject(1))
    /\ WF_vars(BackoffResume(1))
    /\ WF_vars(PacingResume(1))

SpecLive == Init /\ [][Next]_vars /\ Fairness

\* Two overlapping sendToMultiple calls on one EmailSender, each caller's
\* first: caller 2 calls while the call of caller 1 is suspended at an await
\* the batch of caller 1 is the first MaxBatch recipients of one list, that of
\* caller 2 the first MaxBatch - 1 of its reverse
OverlapBatches ==
    LET a == Rcpt("string", "a@x.io", "undefined", "undefined")
        b == Rcpt("object", "b@y.org", "string", "object")
        c == Rcpt("object", "c@z.net", "undefined", "undefined")
    IN  <<{SubSeq(<<a, b, c>>, 1, Min(3, MaxBatch))},
          {SubSeq(<<c, b, a>>, 1, Min(3, MaxBatch - 1))}>>

FirstCall(p) ==
    /\ call[p].ops = 0
    /\ SendToMultiple(p)
    /\ call'[p].recipients \in {_normalizeRecipients(s) : s \in OverlapBatches[p]}

Suspended(p) == call[p].pc \in {"limit", "transport", "backoff", "pacing"}

NextOverlap ==
    \/ FirstCall(1)
    \/ (Suspended(1) /\ FirstCall(2))
    \/ \E p \in Callers : WaitIfNeededResume(p)
    \/ \E p \in Callers : StartSend(p)
    \/ \E p \in Callers : TransportFulfil(p)
    \/ \E p \in Callers : TransportReject(p)
    \/ \E p \in Callers : BackoffResume(p)
    \/ \E p \in Callers : PacingResume(p)
    \/ TimerElapse

\* An EmailSender with the default pacing delay and limiter cap 1 per minute
InitOverlap ==
    /\ InitIdle
    /\ LET config == _mergeWithDefaults(
                         [dailyLimit |-> MaxDailyLimit, delayBetweenEmails |-> Absent,
                          maxRetries |-> MaxSenderRetries, retryDelay |-> Absent],
                         [enabled |-> TRUE, maxEmailsPerMinute |-> 1,
                          maxEmailsPerHour |-> Absent])
       IN  /\ sender = EmailSender(config, Epoch)
           /\ retryLogic = RetryLogic(config.options)
           /\ rateLimiter = RateLimiter(config.rateLimit)
    /\ input = <<>>

SpecOverlap == InitOverlap /\ [][NextOverlap]_vars

\* A RateLimiter of any configuration, called directly by one caller
InitRL ==
    /\ InitIdle
    /\ rateLimiter \in {RateLimiter(config) : config \in RateConfigs}
    /\ sender = EmailSender(DefaultConfig, Epoch)
    /\ retryLogic = RetryLogic(DefaultConfig.options)
    /\ input = <<>>

NextRL ==
    \/ WaitIfNeeded(1)
    \/ WaitIfNeededResume(1)
    \/ TimerElapse
    \/ Tick

SpecRL == InitRL /\ [][NextRL]_vars

NextRLConfig ==
    \/ WaitIfNeeded(1)
    \/ WaitIfNeededResume(1)
    \/ TimerElapse
    \/ UpdateConfig
    \/ CanSendImmediately

\* The limiter called, reconfigured and queried; time passes by its timers
SpecRLConfig == InitRL /\ [][NextRLConfig]_vars

NextRLStatus ==
    \/ WaitIfNeeded(1)
    \/ WaitIfNeededResume(1)
    \/ TimerElapse
    \/ CanSendImmediately
    \/ GetStatus
    \/ Reset

\* The limiter called, queried and reset; time passes by its timers
SpecRLStatus == InitRL /\ [][NextRLStatus]_vars

\* A BurstRateLimiter of any configuration, called directly by one caller
InitBurst ==
    /\ InitIdle
    /\ rateLimiter \in {BurstRateLimiter(config) : config \in BurstConfigs}
    /\ sender = EmailSender(DefaultConfig, Epoch)
    /\ retryLogic = RetryLogic(DefaultConfig.options)
    /\ input = <<>>

NextBurst ==
    \/ WaitIfNeeded(1)
    \/ WaitIfNeededResume(1)
    \/ TimerElapse
    \/ RecordBurst
    \/ CanSendImmediately
    \/ GetStatus
    \/ Reset

\* The burst limiter called, queried and reset; time passes by its timers
SpecBurst == InitBurst /\ [][NextBurst]_vars

NextCooldown ==
    \/ Tick
    \/ RecordBurst
    \/ CanBurst

\* The burst allowance spent and queried as time passes
SpecCooldown == InitBurst /\ [][NextCooldown]_vars

\* A RetryLogic of any options, called directly by one caller
InitRetry ==
    /\ InitIdle
    /\ retryLogic \in {RetryLogic(options) : options \in OptionsSet}
    /\ sender = EmailSender(DefaultConfig, Epoch)
    /\ rateLimiter = RateLimiter(DefaultConfig.rateLimit)
    /\ input = <<>>

NextRetry ==
    \/ ExecuteWithRetry(1)
    \/ FnFulfil(1)
    \/ FnReject(1)
    \/ RetryResume(1)

SpecRetry == InitRetry /\ [][NextRetry]_vars

\* The options a RetryLogic is constructed with, as the caller configured
\* them: a field is absent (undefined) or a number validateConfigOptions accepts
ConfiguredOptions ==
    [maxRetries : {Absent} \cup (0..MaxRetriesOpt), retryDelay : {Absent, 0, 12000}]

\* The options object as the constructor's || sees it: undefined and 0 are falsy
OptionsObject(configured) ==
    [maxRetries |-> IF configured.maxRetries = Absent THEN 0 ELSE configured.maxRetries,
     retryDelay |-> IF configured.retryDelay = Absent THEN 0 ELSE configured.retryDelay]

\* A RetryLogic constructed with any configured options (kept in input),
\* called directly by one caller
InitRetryConfig ==
    /\ InitIdle
    /\ input \in ConfiguredOptions
    /\ retryLogic = RetryLogic(OptionsObject(input))
    /\ sender = EmailSender(DefaultConfig, Epoch)
    /\ rateLimiter = RateLimiter(DefaultConfig.rateLimit)

SpecRetryConfig == InitRetryConfig /\ [][NextRetry]_vars

\* _calculateDelay applied, for one RetryLogic and one error, to the attempt
\* numbers 1, 2, ... in turn, each with any Math.random()
CalculateDelay ==
    /\ Len(output) < MaxAttempt
    /\ \E random \in RandomTenths :
         output' = Append(output,
                     [attempt   |-> Len(output) + 1,
                      preJitter |-> _backoff(retryLogic, Len(output) + 1),
                      uncapped  |-> _scaledDelay(retryLogic, Len(output) + 1,
                                                 input.error, random),
                      delay     |-> _calculateDelay(retryLogic, Len(output) + 1,
                                                    input.error, random)])
    /\ UNCHANGED <<clock, ticks, rateLimiter, rl, released, retryLogic, retry, sender,
                   call, transportCalls, input>>

InitDelay ==
    /\ InitIdle
    /\ retryLogic \in {RetryLogic(options) : options \in OptionsSet}
    /\ input \in [error : Messages \cup MixedMessages]
    /\ sender = EmailSender(DefaultConfig, Epoch)
    /\ rateLimiter = RateLimiter(DefaultConfig.rateLimit)

NextDelay == CalculateDelay

SpecDelay == InitDelay /\ [][NextDelay]_vars

\* getRetryStatistics applied to any result set
InitStats ==
    /\ InitIdle
    /\ input \in ResultSets
    /\ sender = EmailSender(DefaultConfig, Epoch)
    /\ retryLogic = RetryLogic(DefaultConfig.options)
    /\ rateLimiter = RateLimiter(DefaultConfig.rateLimit)

NextStats == GetRetryStatistics

SpecStats == InitStats /\ [][NextStats]_vars

\* Failed results of any error message counted by a default EmailSender
InitCategory ==
    /\ InitIdle
    /\ input = <<>>
    /\ sender = EmailSender(DefaultConfig, Epoch)
    /\ retryLogic = RetryLogic(DefaultConfig.options)
    /\ rateLimiter = RateLimiter(DefaultConfig.rateLimit)

NextCategory == CountFailure

SpecCategory == InitCategory /\ [][NextCategory]_vars

\* An AdaptiveRateLimiter of any configuration, fed results
InitAdaptive ==
    /\ InitIdle
    /\ input \in AdaptiveConfigs
    /\ rateLimiter = AdaptiveRateLimiter(input)
    /\ sender = EmailSender(DefaultConfig, Epoch)
    /\ retryLogic = RetryLogic(DefaultConfig.options)

NextAdaptive == RecordResult

SpecAdaptive == InitAdaptive /\ [][NextAdaptive]_vars

\* An AdaptiveRateLimiter constructed with a cap, called through waitIfNeeded,
\* fed results and asked for its statistics
InitAdaptiveStatus ==
    /\ InitIdle
    /\ input = <<>>
    /\ rateLimiter \in {AdaptiveRateLimiter(config) :
                           config \in {c \in AdaptiveConfigs : c.maxEmailsPerMinute # 0}}
    /\ sender = EmailSender(DefaultConfig, Epoch)
    /\ retryLogic = RetryLogic(DefaultConfig.options)

NextAdaptiveStatus ==
    \/ RecordResult
    \/ GetAdaptiveStatistics
    \/ WaitIfNeeded(1)
    \/ WaitIfNeededResume(1)
    \/ TimerElapse

SpecAdaptiveStatus == InitAdaptiveStatus /\ [][NextAdaptiveStatus]_vars

(***************************************************************************)
(* The claims                                                              *)
(***************************************************************************)
\* The number of entries of the sequence times that lie in the 60-second
\* window (t - 60 s, t] ending at t
InMinuteEndingAt(times, t) ==
    Cardinality({i \in DOMAIN times : times[i] > t - minuteWindow /\ times[i] <= t})

\* C1: with the limiter enabled and maxEmailsPerMinute = N, no sliding 60-second
\* window holds more than N recorded send timestamps (entries of
\* emailTimestamps).  A window with more than N entries exists exactly when
\* the window ending at one of the entries has more than N.
C1_WindowCorrectness ==
    rateLimiter.enabled =>
        \A i \in DOMAIN rateLimiter.emailTimestamps :
            InMinuteEndingAt(rateLimiter.emailTimestamps, rateLimiter.emailTimestamps[i])
                <= rateLimiter.maxEmailsPerMinute

\* C2: with the limiter enabled, no sliding 60-second interval of real time
\* holds more returns of waitIfNeeded (sends released) than maxEmailsPerMinute.
C2_ReleasesPerMinute ==
    rateLimiter.enabled =>
        \A i \in DOMAIN released :
            InMinuteEndingAt(released, released[i]) <= rateLimiter.maxEmailsPerMinute

\* A step in which caller 1 calls sendToMultiple with valid recipients and content
ValidBatchCall ==
    /\ Idle(1)
    /\ call'[1].ops = call[1].ops + 1
    /\ call'[1].op = "sendToMultiple"
    /\ call'[1].error \notin (RecipientErrors \cup ContentErrors)

\* C3: a sendToMultiple call with valid inputs, made when dailyCount equals
\* dailyLimit and the date is still lastResetDate, throws the daily-limit
\* error; it makes no transport call and no rate-limiter call.
C3_QuotaFatality ==
    [][(/\ ValidBatchCall
        /\ sender.dailyCount = sender.options.dailyLimit
        /\ toDateString(clock) = sender.lastResetDate)
       => (/\ call'[1].pc = "thrown"
           /\ call'[1].error = "Daily email limit reached"
           /\ transportCalls' = transportCalls
           /\ rateLimiter' = rateLimiter
           /\ rl' = rl
           /\ released' = released)]_vars

\* C3 happens: the quota error was thrown with dailyCount = dailyLimit, after
\* transport calls of the same date
C3_Witness ==
    /\ call[1].pc = "thrown"
    /\ call[1].error = "Daily email limit reached"
    /\ sender.dailyCount = sender.options.dailyLimit
    /\ toDateString(clock) = sender.lastResetDate
    /\ transportCalls >= sender.options.dailyLimit

\* C4: the quota counter never exceeds dailyLimit.
C4_QuotaCeiling == sender.dailyCount <= sender.options.dailyLimit

\* C5: a sendToMultiple call that got past validation and the quota check has,
\* at every moment, one result for each recipient it is done with, in input
\* order, each with at least one transport attempt; when it returns it has one
\* result per recipient.
C5_OneResultPerRecipient ==
    LET c == call[1] IN
    (c.op = "sendToMultiple" /\ c.pc \notin {"none", "thrown"}) =>
        /\ Len(c.results) <= Len(c.recipients)
        /\ Len(c.results) \in {c.index - 1, c.index}
        /\ \A i \in DOMAIN c.results :
               /\ c.results[i].recipient = c.recipients[i].email
               /\ c.results[i].attempts >= 1
        /\ (c.pc = "returned" => Len(c.results) = Len(c.recipients))

\* C5 happens: a call returned two results, the first a failure, the second a
\* success
C5_Witness ==
    /\ call[1].op = "sendToMultiple"
    /\ call[1].pc = "returned"
    /\ Len(call[1].results) = 2
    /\ ~call[1].results[1].success
    /\ call[1].results[2].success

\* C9: sendToMultiple throws only at its call, for invalid recipients or content
\* or for the daily limit, never once it got past them; and a throw for invalid
\* recipients or content leaves the transport-call count, the sender (quota
\* counter, last-reset date, statistics) and the rate limiter unchanged.
C9_ThrowsOnlyAtCall ==
    [][/\ (call[1].pc \notin {"none", "returned", "thrown"} => call'[1].pc # "thrown")
       /\ (call'[1].pc = "thrown" /\ call'[1].ops = call[1].ops + 1) =>
              /\ call'[1].error \in
                     RecipientErrors \cup ContentErrors \cup {"Daily email limit reached"}
              /\ call'[1].error \in RecipientErrors \cup ContentErrors =>
                     /\ transportCalls' = transportCalls
                     /\ sender' = sender
                     /\ rateLimiter' = rateLimiter
                     /\ rl' = rl]_vars

\* C9 happens: invalid input was rejected on a later date than lastResetDate,
\* with a non-zero quota counter
C9_Witness ==
    /\ call[1].pc = "thrown"
    /\ call[1].error \in RecipientErrors \cup ContentErrors
    /\ toDateString(clock) # sender.lastResetDate
    /\ sender.dailyCount > 0

\* The messages that contain, once lowercased, one of the keywords the
\* specification lists as non-retryable
NonRetryableKeywords ==
    {"validation", "invalid", "malformed", "invalid credentials",
     "authentication failed", "unauthorized", "invalid email", "bad email",
     "email not found"}

NonRetryableMessages ==
    {e \in Messages : \E kw \in NonRetryableKeywords : includes(toLowerCase(Chars[e]), kw)}

\* C6: in executeWithRetry, an attempt that fails with a message containing a
\* non-retryable keyword is the last attempt: that error is thrown, the
\* operation is not invoked again and no delay follows it (the i-th attempt is
\* preceded by exactly i - 1 delays); so an operation that fails with such an
\* error at once is invoked exactly once.
C6_NonRetryableRethrown ==
    LET r == retry[1] IN
    \A i \in DOMAIN r.errors :
        r.errors[i] \in NonRetryableMessages =>
            /\ i = Len(r.errors)
            /\ r.pc = "thrown"
            /\ r.error = r.errors[i]
            /\ r.fnCalls = i
            /\ r.suspends = i - 1

\* C6 happens: with attempts remaining, "invalid credentials" was thrown by the
\* first attempt and rethrown
C6_Witness ==
    /\ retry[1].pc = "thrown"
    /\ retry[1].errors = <<"invalid credentials">>
    /\ retry[1].fnCalls = 1
    /\ retryLogic.maxRetries = 3

\* C7: with maxRetries = m >= 1 and an operation that fails every attempt with
\* a retryable error, executeWithRetry throws after exactly m invocations and
\* m - 1 delays, the error thrown is that of the m-th attempt, and no delay
\* follows the m-th attempt.
C7_ExhaustedRetries ==
    LET r == retry[1]
        m == retryLogic.maxRetries
    IN  /\ m >= 1
        /\ r.pc = "delay" => r.attempt < m /\ r.suspends = r.attempt
        /\ (r.pc = "thrown" /\ \A i \in DOMAIN r.errors : r.errors[i] \notin NonRetryableMessages) =>
               /\ r.fnCalls = m
               /\ Len(r.errors) = m
               /\ r.suspends = m - 1
               /\ r.error = r.errors[m]

\* C7 happens: three attempts failed with retryable errors, the last with a
\* different error than the others, and executeWithRetry threw
C7_Witness ==
    /\ retry[1].pc = "thrown"
    /\ retryLogic.maxRetries = 3
    /\ retry[1].errors = <<"network timeout", "network timeout", "SMTP error">>

\* C8: the delay before jitter, baseDelay * 2^(a - 1), does not decrease as the
\* attempt number a grows, and the delay _calculateDelay returns is at most
\* maxDelay = 30000 ms for every attempt number and every error message.
C8_BackoffMonotoneAndCapped ==
    /\ \A i, j \in DOMAIN output :
           i <= j => output[i].preJitter <= output[j].preJitter
    /\ \A i \in DOMAIN output : output[i].delay <= 30000 * 1000

\* C8 happens: the delay before jitter grew from one attempt to the next, and
\* the cap decided the later delay
C8_Witness ==
    \E i \in DOMAIN output :
        /\ i >= 2
        /\ output[i - 1].preJitter < output[i].preJitter
        /\ output[i - 1].delay < 30000 * 1000
        /\ output[i].delay = 30000 * 1000
        /\ output[i].preJitter > 30000

RECURSIVE MapSum(_)
MapSum(map) ==
    IF DOMAIN map = {} THEN 0
    ELSE LET key == CHOOSE k \in DOMAIN map : TRUE IN
         map[key] + MapSum([k \in DOMAIN map \ {key} |-> map[k]])

\* C10: for a result set of size M, the values of retryDistribution sum to M
\* and totalAttempts is the sum of the results' attempts; for M = 0 every
\* counter is 0 and retryDistribution is empty.
C10_RetryHistogram ==
    output # <<>> =>
        LET stats == output[1]
            M     == Len(input)
        IN  /\ MapSum(stats.retryDistribution) = M
            /\ stats.totalAttempts = SumSeq([i \in DOMAIN input |-> input[i].attempts])
            /\ M = 0 =>
                   /\ stats.totalAttempts = 0
                   /\ stats.successfulOnFirstTry = 0
                   /\ stats.successfulAfterRetry = 0
                   /\ stats.failedAfterAllRetries = 0
                   /\ stats.averageAttempts.num = 0
                   /\ DOMAIN stats.retryDistribution = {}

\* C10 happens: statistics of three results, two of which took the same number
\* of attempts, one of them a single attempt
C10_Witness ==
    /\ output # <<>>
    /\ Len(input) = 3
    /\ DOMAIN output[1].retryDistribution = {1, 3}
    /\ output[1].retryDistribution[3] = 2

\* The cap the limiter was constructed with (10 when none is given)
OriginalCap == IF input.maxEmailsPerMinute = 0 THEN 10 ELSE input.maxEmailsPerMinute

\* C11: for an adaptive limiter constructed with maxEmailsPerMinute = 10 and
\* fed failures only, the limit never increases, strictly decreases on every
\* update made with successRate < 0.8 and the limit above 1, and after 20
\* failures successRate < 0.8 and the limit is 1.
C11_AdaptiveConvergence ==
    (input.maxEmailsPerMinute = 10 /\ \A i \in DOMAIN output : ~output[i].success) =>
        /\ \A i \in DOMAIN output :
               /\ output[i].after <= output[i].before
               /\ (RateLow(output[i].rate) /\ output[i].before > 1) =>
                      output[i].after < output[i].before
        /\ Len(output) = 20 =>
               /\ RateLow(rateLimiter.successRate)
               /\ rateLimiter.maxEmailsPerMinute = 1

\* C11 happens: 20 failures were fed to a limiter constructed with cap 10, the
\* first of them changing nothing
C11_Witness ==
    /\ input.maxEmailsPerMinute = 10
    /\ Len(output) = 20
    /\ \A i \in DOMAIN output : ~output[i].success
    /\ output[1].after = 10
    /\ output[3].after = 9
    /\ output[20].after = 1

\* C12: after any recordResult calls maxEmailsPerMinute is an integer from 1 to
\* twice the originally configured cap, also when no cap was given.
C12_AdaptiveBounds ==
    /\ rateLimiter.maxEmailsPerMinute # NaN
    /\ rateLimiter.maxEmailsPerMinute >= 1
    /\ rateLimiter.maxEmailsPerMinute <= 2 * OriginalCap

\* C13: a recordResult call that leaves successRate > 0.95 while the limit is
\* below twice the original cap strictly increases the limit.
C13_AdaptiveGrowth ==
    \A i \in DOMAIN output :
        (RateHigh(output[i].rate) /\ output[i].before # NaN
            /\ output[i].before < 2 * OriginalCap) =>
            (output[i].after # NaN /\ output[i].after > output[i].before)

\* C14: a waitIfNeeded call made while the limiter is disabled returns without
\* suspending and leaves the limiter (emailTimestamps and every statistic)
\* unchanged, and canSendImmediately answers true while it is disabled,
\* whatever was recorded before.
C14_DisabledNoOp ==
    [][/\ (~rateLimiter.enabled /\ rl'[1].calls = rl[1].calls + 1) =>
              (rl'[1].pc = "returned" /\ rateLimiter' = rateLimiter)
       /\ (~rateLimiter.enabled /\ output' # output) => output'[1].result]_vars

\* C14 happens: the limiter was disabled with its minute window saturated; a
\* waitIfNeeded call made since returned at once and canSendImmediately
\* answered true
C14_Witness ==
    /\ ~rateLimiter.enabled
    /\ Len(SelectTimes(rateLimiter.emailTimestamps, clock - minuteWindow))
           >= rateLimiter.maxEmailsPerMinute
    /\ rl[1].pc = "returned"
    /\ rl[1].now = clock
    /\ rl[1].calls > rateLimiter.stats.totalEmails
    /\ output = <<[enabled |-> FALSE, result |-> TRUE]>>

\* May event b directly follow event a in one sendToMultiple call?  The order
\* per recipient is limit, transport and settled (once per attempt), stats,
\* pacing (when delayBetweenEmails > 0), and then the next recipient's limit.
MayFollow(a, b, paced) ==
    \/ a.kind = "limit" /\ b.kind = "transport" /\ b.index = a.index
    \/ a.kind = "transport" /\ b.kind = "settled" /\ b.index = a.index
    \/ a.kind = "settled" /\ b.kind \in {"transport", "stats"} /\ b.index = a.index
    \/ a.kind = "stats" /\ paced /\ b.kind = "pacing" /\ b.index = a.index
    \/ a.kind = "stats" /\ ~paced /\ b.kind = "limit" /\ b.index = a.index + 1
    \/ a.kind = "pacing" /\ b.kind = "limit" /\ b.index = a.index + 1

InOrder(c, paced) ==
    /\ c.trace # <<>> => c.trace[1] = [kind |-> "limit", index |-> 1]
    /\ \A k \in 1..(Len(c.trace) - 1) : MayFollow(c.trace[k], c.trace[k + 1], paced)

\* The event a step of the call adds last, if it adds one
Adds(kind) ==
    /\ Len(call'[1].trace) > Len(call[1].trace)
    /\ call'[1].trace[Len(call'[1].trace)].kind = kind

\* C15: in one sendToMultiple call the events come strictly in the order
\* limiter wait, transport attempts, statistics update, pacing delay, next
\* recipient; a transport call starts only when the limiter wait returned or
\* the backoff delay elapsed, with no other transport call in flight, and the
\* next recipient's limiter call only when the pacing delay elapsed.
C15_SequentialDispatch ==
    [][call'[1].op = "sendToMultiple" =>
          /\ InOrder(call'[1], sender.options.delayBetweenEmails > 0)
          /\ Adds("transport") =>
                 \/ call[1].pc = "limit" /\ rl[1].pc = "returned"
                 \/ call[1].pc = "backoff" /\ clock >= retry[1].wake
          /\ (Adds("limit") /\ call'[1].index > 1 /\ sender.options.delayBetweenEmails > 0) =>
                 call[1].pc = "pacing" /\ clock >= call[1].wake]_vars

\* C15 happens: a paced batch of two returned, the first recipient after a
\* retry
C15_Witness ==
    /\ call[1].op = "sendToMultiple"
    /\ call[1].pc = "returned"
    /\ sender.options.delayBetweenEmails > 0
    /\ Len(call[1].results) = 2
    /\ call[1].results[1].attempts = 2
    /\ Len(call[1].trace) >= 10

\* C16: a sendToMultiple call with delayBetweenEmails > 0 that returned for n
\* recipients awaited exactly n - 1 pacing delays.
C16_NoPacingAfterLast ==
    (call[1].op = "sendToMultiple" /\ call[1].pc = "returned"
        /\ sender.options.delayBetweenEmails > 0) =>
        call[1].pacings = Len(call[1].recipients) - 1

\* C18: when a sendToMultiple call that did not reset the quota counter (no
\* date rollover) returns, dailyCount has grown by exactly the sum of the
\* attempts of the returned results.
C18_QuotaPerAttempt ==
    (call[1].op = "sendToMultiple" /\ call[1].pc = "returned"
        /\ call[1].quota.date = sender.lastResetDate) =>
        sender.dailyCount =
            call[1].quota.count
                + SumSeq([i \in DOMAIN call[1].results |-> call[1].results[i].attempts])

\* C18 happens: on the day of an earlier send, a call returned a result that
\* took two attempts
C18_Witness ==
    /\ call[1].op = "sendToMultiple"
    /\ call[1].pc = "returned"
    /\ call[1].quota.date = sender.lastResetDate
    /\ toDateString(clock) = sender.lastResetDate
    /\ call[1].quota.count > 0
    /\ \E i \in DOMAIN call[1].results : call[1].results[i].attempts = 2

\* The recorded timestamps newer than t - window, as a set, and the oldest of
\* them
NewerThan(t, window) ==
    {ts \in {rateLimiter.emailTimestamps[i] : i \in DOMAIN rateLimiter.emailTimestamps} :
        ts > t - window}

CountNewerThan(t, window) ==
    Cardinality({i \in DOMAIN rateLimiter.emailTimestamps :
                    rateLimiter.emailTimestamps[i] > t - window})

OldestNewerThan(t, window) ==
    CHOOSE ts \in NewerThan(t, window) : \A other \in NewerThan(t, window) : ts <= other

\* C17: whenever the timestamps newer than now - 60 s number at least
\* maxEmailsPerMinute, the computed wait is the oldest of them + 60000 - now and
\* is positive, and a waitIfNeeded call of the enabled limiter made now
\* suspends until then.
C17_MinuteWait ==
    CountNewerThan(clock, 60000) >= rateLimiter.maxEmailsPerMinute =>
        LET wait == OldestNewerThan(clock, 60000) + 60000 - clock IN
        /\ _calculateWaitTime(rateLimiter, clock) = wait
        /\ wait > 0
        /\ rateLimiter.enabled =>
               /\ waitIfNeeded(rateLimiter, rl[1], clock).act.pc = "delay"
               /\ waitIfNeeded(rateLimiter, rl[1], clock).act.wake = clock + wait

\* C17 happens: with maxEmailsPerMinute = 2, the third of three calls made at
\* the same time is suspended for 60000 ms
C17_Witness ==
    /\ rateLimiter.enabled
    /\ rateLimiter.maxEmailsPerMinute = 2
    /\ rateLimiter.emailTimestamps = <<Epoch, Epoch>>
    /\ clock = Epoch
    /\ rl[1].calls = 3
    /\ rl[1].pc = "delay"
    /\ rl[1].waitTime = 60000

\* C19: for an enabled limiter no 3600-second window ending at a recorded
\* timestamp holds more than maxEmailsPerHour recorded timestamps.
C19_HourWindow ==
    rateLimiter.enabled =>
        \A i \in DOMAIN rateLimiter.emailTimestamps :
            Cardinality({j \in DOMAIN rateLimiter.emailTimestamps :
                            /\ rateLimiter.emailTimestamps[j] > rateLimiter.emailTimestamps[i] - 3600000
                            /\ rateLimiter.emailTimestamps[j] <= rateLimiter.emailTimestamps[i]})
                <= rateLimiter.maxEmailsPerHour

\* C20: when the minute window and the hour window are both saturated, the
\* wait of a waitIfNeeded call is the minute-window wait alone; and a suspended
\* call, when it resumes, returns and records its send whatever the windows
\* hold then: it is suspended at most once.
C20_MinuteFirst ==
    [][/\ (/\ rateLimiter.enabled
           /\ rl'[1].calls = rl[1].calls + 1
           /\ CountNewerThan(clock, 60000) >= rateLimiter.maxEmailsPerMinute
           /\ CountNewerThan(clock, 3600000) >= rateLimiter.maxEmailsPerHour) =>
              /\ rl'[1].pc = "delay"
              /\ rl'[1].waitTime = OldestNewerThan(clock, 60000) + 60000 - clock
       /\ (rl[1].pc = "delay" /\ rl'[1] # rl[1]) =>
              /\ rl'[1].pc = "returned"
              /\ rateLimiter'.stats.totalEmails = rateLimiter.stats.totalEmails + 1
              /\ rateLimiter'.emailTimestamps # <<>>
              /\ rateLimiter'.emailTimestamps[Len(rateLimiter'.emailTimestamps)] = rl[1].now]_vars

\* C20 happens: a call that found both windows saturated waited for the minute
\* window only, resumed and recorded its send beyond the hourly cap
C20_Witness ==
    /\ rateLimiter.enabled
    /\ rl[1].pc = "returned"
    /\ rl[1].waitTime > 0
    /\ rl[1].waitTime <= 60000
    /\ clock = rl[1].wake
    /\ CountNewerThan(clock, 3600000) > rateLimiter.maxEmailsPerHour

ResetStep == rateLimiter' # rateLimiter /\ rl' = rl

\* C22: reset() empties emailTimestamps and sets totalEmails,
\* rateLimitedEmails, averageWaitTime and maxWaitTime to 0 in one step, leaves
\* enabled and both caps unchanged, and right after it canSendImmediately is
\* true for an enabled limiter with caps >= 1.
C22_Reset ==
    [][ResetStep =>
          /\ rateLimiter'.emailTimestamps = <<>>
          /\ rateLimiter'.stats.totalEmails = 0
          /\ rateLimiter'.stats.rateLimitedEmails = 0
          /\ rateLimiter'.stats.averageWaitTime.num = 0
          /\ rateLimiter'.stats.maxWaitTime = 0
          /\ rateLimiter'.enabled = rateLimiter.enabled
          /\ rateLimiter'.maxEmailsPerMinute = rateLimiter.maxEmailsPerMinute
          /\ rateLimiter'.maxEmailsPerHour = rateLimiter.maxEmailsPerHour
          /\ (/\ rateLimiter'.enabled
              /\ rateLimiter'.maxEmailsPerMinute >= 1
              /\ rateLimiter'.maxEmailsPerHour >= 1) =>
                 canSendImmediately(rateLimiter', clock')]_vars

\* C22 happens: the limiter is as reset() leaves it, after calls that had
\* saturated its minute window at this very time, one of them throttled
\* earlier; a send is possible at once
C22_Witness ==
    /\ rateLimiter.enabled
    /\ rateLimiter.emailTimestamps = <<>>
    /\ rateLimiter.stats =
           [totalEmails |-> 0, rateLimitedEmails |-> 0,
            averageWaitTime |-> [num |-> 0, den |-> 1], maxWaitTime |-> 0]
    /\ rl[1].pc = "returned"
    /\ rl[1].now = clock
    /\ Cardinality({i \in DOMAIN released : released[i] = clock})
           >= rateLimiter.maxEmailsPerMinute
    /\ Len(released) > rateLimiter.maxEmailsPerMinute
    /\ canSendImmediately(rateLimiter, clock)

\* C23: whenever a waitIfNeeded call of the enabled limiter has returned (calls
\* made one after the other, the clock never going back), emailTimestamps is
\* non-decreasing and holds only timestamps newer than that call's now - 3600 s.
C23_SortedAndPruned ==
    (rateLimiter.enabled /\ rl[1].pc = "returned") =>
        /\ \A i, j \in DOMAIN rateLimiter.emailTimestamps :
               i <= j => rateLimiter.emailTimestamps[i] <= rateLimiter.emailTimestamps[j]
        /\ \A i \in DOMAIN rateLimiter.emailTimestamps :
               rateLimiter.emailTimestamps[i] > rl[1].now - 3600000

\* C23 happens: a call returned that pruned timestamps an hour old and kept a
\* newer one beside its own
C23_Witness ==
    /\ rateLimiter.enabled
    /\ rl[1].pc = "returned"
    /\ Len(rateLimiter.emailTimestamps) < rateLimiter.stats.totalEmails
    /\ Len(rateLimiter.emailTimestamps) >= 2
    /\ rateLimiter.emailTimestamps[1] < rateLimiter.emailTimestamps[2]

\* The event a step of the call logs last, if it logs one
Logs(kind) ==
    /\ call'[1].trace # call[1].trace
    /\ call'[1].trace # <<>>
    /\ call'[1].trace[Len(call'[1].trace)].kind = kind

CountKind(trace, kind) == Cardinality({k \in DOMAIN trace : trace[k].kind = kind})

\* C24: with the limiter enabled, waitIfNeeded is called exactly in the steps
\* that begin a recipient of a sendToMultiple call, once per recipient; each of
\* its calls records one timestamp and adds one to totalEmails when it returns;
\* a step that starts a transport attempt (first or retry) leaves the limiter
\* untouched.  So a returned call has recorded one send per recipient, however
\* many attempts the recipients took.
C24_SendsNotAttempts ==
    [][/\ Logs("limit") <=> rl'[1].calls = rl[1].calls + 1
       /\ rl'[1].calls \in {rl[1].calls, rl[1].calls + 1}
       /\ Logs("transport") => (rateLimiter' = rateLimiter /\ rl' = rl)
       /\ rateLimiter'.stats.totalEmails =
              rl'[1].calls - (IF rl'[1].pc = "delay" THEN 1 ELSE 0)
       /\ rateLimiter'.stats.totalEmails > rateLimiter.stats.totalEmails =>
              /\ rateLimiter'.stats.totalEmails = rateLimiter.stats.totalEmails + 1
              /\ rateLimiter'.emailTimestamps # <<>>
              /\ rateLimiter'.emailTimestamps[Len(rateLimiter'.emailTimestamps)] = rl'[1].now
       /\ (call'[1].op = "sendToMultiple" /\ call'[1].pc \notin {"none", "thrown"}) =>
              CountKind(call'[1].trace, "limit") = call'[1].index
       /\ (call'[1].op = "sendToMultiple" /\ call'[1].pc = "returned") =>
              call'[1].index = Len(call'[1].recipients)]_vars

\* C24 happens: the first call, of two recipients, returned after three
\* transport attempts and two recorded sends
C24_Witness ==
    /\ call[1].op = "sendToMultiple"
    /\ call[1].pc = "returned"
    /\ call[1].ops = 1
    /\ Len(call[1].recipients) = 2
    /\ transportCalls = 3
    /\ rateLimiter.stats.totalEmails = 2
    /\ rateLimiter.enabled

\* C25: for a BurstRateLimiter the minute-window check compares the count of
\* the last 60 s with burstLimit while canBurst() is true and with
\* maxEmailsPerMinute while it is false; below that cap the hour-window check
\* compares with maxEmailsPerHour in both cases; and a limiter constructed
\* without burstLimit has burstLimit = 2 x maxEmailsPerMinute.
C25_BurstCap ==
    LET cap  == IF canBurst(rateLimiter, clock) THEN rateLimiter.burstLimit
                ELSE rateLimiter.maxEmailsPerMinute
        wait == this_calculateWaitTime(rateLimiter, clock)
    IN  /\ CountNewerThan(clock, 60000) >= cap =>
               wait = OldestNewerThan(clock, 60000) + 60000 - clock
        /\ (/\ CountNewerThan(clock, 60000) < cap
            /\ CountNewerThan(clock, 3600000) >= rateLimiter.maxEmailsPerHour) =>
               wait = Max(0, OldestNewerThan(clock, 3600000) + 3600000 - clock)
        /\ (/\ CountNewerThan(clock, 60000) < cap
            /\ CountNewerThan(clock, 3600000) < rateLimiter.maxEmailsPerHour) =>
               wait = 0
        /\ \A config \in [enabled : {TRUE}, maxEmailsPerMinute : 0..3,
                           maxEmailsPerHour : {0}, burstLimit : {0},
                           burstCooldown : {0}] :
               BurstRateLimiter(config).burstLimit =
                   2 * BurstRateLimiter(config).maxEmailsPerMinute

\* C25 happens: two sends of the same minute were admitted without a wait
\* under burstLimit = 3 although maxEmailsPerMinute = 1; the burst was then
\* recorded, and now the normal cap holds the next send back
C25_Witness ==
    /\ ~canBurst(rateLimiter, clock)
    /\ rateLimiter.maxEmailsPerMinute = 1
    /\ rateLimiter.burstLimit = 3
    /\ CountNewerThan(clock, 60000) = 2
    /\ rateLimiter.stats.rateLimitedEmails = 0
    /\ this_calculateWaitTime(rateLimiter, clock) > 0

\* C26: lastBurst changes only in a step of recordBurst(), which sets it to
\* the current time: waitIfNeeded, canSendImmediately, getStatus and reset
\* leave it alone.  As long as recordBurst was never called lastBurst is 0 and
\* the effective per-minute cap is burstLimit.
C26_BurstOnlyByRecord ==
    [][/\ rateLimiter'.lastBurst # rateLimiter.lastBurst =>
              /\ input' = Append(input, clock)
              /\ rateLimiter'.lastBurst = clock
       /\ input' = input => rateLimiter'.lastBurst = rateLimiter.lastBurst
       /\ input' = <<>> =>
              /\ rateLimiter'.lastBurst = 0
              /\ canBurst(rateLimiter', clock')
              /\ effectiveMinuteLimit(rateLimiter', clock') = rateLimiter'.burstLimit]_vars

\* C26 happens: with recordBurst never called, after four sends, a reset
\* between them and a getStatus query, the effective cap is still burstLimit
C26_Witness ==
    /\ input = <<>>
    /\ rl[1].calls = 4
    /\ rl[1].pc = "returned"
    /\ rateLimiter.stats.totalEmails \in 1..3
    /\ output = <<getStatus(rateLimiter, clock)>>
    /\ rateLimiter.lastBurst = 0
    /\ effectiveMinuteLimit(rateLimiter, clock) = rateLimiter.burstLimit

\* The time of the last recordBurst() call, 0 if there was none
LastBurstTime == IF input = <<>> THEN 0 ELSE input[Len(input)]

\* C27: canBurst() is true exactly when more than burstCooldown has elapsed
\* since the last recordBurst() (since time 0 if there was none): false from
\* the time t of the call up to and including t + burstCooldown, true later.
C27_BurstCooldown ==
    [][/\ canBurst(rateLimiter, clock) <=>
              clock - LastBurstTime > rateLimiter.burstCooldown
       /\ canBurst(rateLimiter', clock') <=>
              clock' - LastBurstTime' > rateLimiter'.burstCooldown
       /\ output' # output =>
              (output'[1].canBurst <=>
                  clock - LastBurstTime > rateLimiter.burstCooldown)]_vars

\* C27 happens: canBurst() answered false exactly burstCooldown after the
\* second recordBurst(), which was made when the allowance was available again
C27_Witness ==
    /\ Len(input) = 2
    /\ input[2] > input[1] + rateLimiter.burstCooldown
    /\ clock = input[2] + rateLimiter.burstCooldown
    /\ output = <<[canBurst |-> FALSE]>>

\* A step in which the running sendToMultiple call pushed a result
PushesResult ==
    /\ call'[1].op = "sendToMultiple"
    /\ call'[1].ops = call[1].ops
    /\ Len(call'[1].results) = Len(call[1].results) + 1

\* C28: the statistics change only in the step in which a recipient of
\* sendToMultiple gets its result, and in every such step: totalAttempts grows
\* by the result's attempts and exactly one of totalSent (success) and
\* totalFailed (failure) grows by 1.  Steps that start or end a transport
\* attempt without a result, and backoff waits, leave them unchanged; so a
\* call has made exactly one update per result.
C28_StatisticsOncePerRecipient ==
    [][/\ sender'.statistics # sender.statistics => PushesResult
       /\ PushesResult =>
              LET result == call'[1].results[Len(call'[1].results)]
                  st     == sender.statistics
                  st1    == sender'.statistics
              IN  /\ st1.totalAttempts = st.totalAttempts + result.attempts
                  /\ result.success =>
                         (st1.totalSent = st.totalSent + 1 /\ st1.totalFailed = st.totalFailed)
                  /\ ~result.success =>
                         (st1.totalSent = st.totalSent /\ st1.totalFailed = st.totalFailed + 1)
       /\ call'[1].pc \in {"transport", "backoff"} =>
              sender'.statistics = sender.statistics
       /\ (call'[1].op = "sendToMultiple" /\ call'[1].pc \notin {"none", "thrown"}) =>
              CountKind(call'[1].trace, "stats") = Len(call'[1].results)]_vars

\* C28 happens: the first call returned a failure after two attempts and a
\* success at the first attempt, and the statistics hold exactly these
C28_Witness ==
    /\ call[1].op = "sendToMultiple"
    /\ call[1].pc = "returned"
    /\ call[1].ops = 1
    /\ Len(call[1].results) = 2
    /\ ~call[1].results[1].success
    /\ call[1].results[1].attempts = 2
    /\ call[1].results[2].success
    /\ sender.statistics.totalAttempts = 3
    /\ sender.statistics.totalSent = 1
    /\ sender.statistics.totalFailed = 1

\* C29: in every state of an EmailSender the values of
\* statistics.errorBreakdown sum to totalFailed, the values of
\* statistics.dailyCount sum to totalSent + totalFailed, and totalAttempts is at
\* least totalSent + totalFailed.
C29_StatisticsSums ==
    LET st == sender.statistics IN
    /\ MapSum(st.errorBreakdown) = st.totalFailed
    /\ MapSum(st.dailyCount) = st.totalSent + st.totalFailed
    /\ st.totalAttempts >= st.totalSent + st.totalFailed

\* C29 happens: results were counted on two dates, failures of two
\* categories among them, one after a retry
C29_Witness ==
    /\ Cardinality(DOMAIN sender.statistics.dailyCount) = 2
    /\ Cardinality(DOMAIN sender.statistics.errorBreakdown) = 2
    /\ sender.statistics.totalFailed = 2
    /\ sender.statistics.totalSent >= 1
    /\ sender.statistics.totalAttempts > sender.statistics.totalSent + sender.statistics.totalFailed

\* The keyword groups of the retry policy (_applyErrorMultiplier and
\* _shouldNotRetry), under the category names of the statistics
PolicyKeywords ==
    [network        |-> {"network", "timeout", "connection"},
     rate_limit     |-> {"rate", "limit", "quota"},
     authentication |-> {"auth", "credential", "permission", "invalid credentials",
                         "authentication failed", "unauthorized"},
     smtp           |-> {"smtp", "mail", "delivery"},
     validation     |-> {"validation", "invalid", "malformed", "invalid email",
                         "bad email", "email not found"}]

\* The categories whose keyword group the lowercased message matches; "other"
\* when it matches none
PolicyCategories(error) ==
    LET matched == {c \in DOMAIN PolicyKeywords :
                       \E kw \in PolicyKeywords[c] :
                           includes(toLowerCase(Chars[error]), kw)}
    IN  IF matched = {} THEN {"other"} ELSE matched

\* C30: a failed result is counted in errorBreakdown under a category the
\* retry policy's case-insensitive keyword groups assign to its error message
\* (whatever their precedence where several match), and under "other" only
\* when the message matches none of the groups.
C30_SameClassification ==
    [][input' # input =>
          \E c \in PolicyCategories(input'[Len(input')]) :
              sender'.statistics.errorBreakdown =
                  Increment(sender.statistics.errorBreakdown, c)]_vars

\* C31: the daily quota counter is reset to 0 only at the start of a
\* sendToMultiple call (past validation), and only when the current date
\* differs from lastResetDate, which is then set to the current date.  While
\* the date is lastResetDate the counter never decreases, whatever the step;
\* lastResetDate changes in no other step.  A valid batch started on a new
\* date finds the counter at 0 and proceeds (it does not throw), even when the
\* counter of the previous date had reached dailyLimit.
C31_DailyReset ==
    [][/\ (sender'.dailyCount < sender.dailyCount
              \/ sender'.lastResetDate # sender.lastResetDate)
          => (/\ ValidBatchCall
              /\ toDateString(clock) # sender.lastResetDate
              /\ sender'.dailyCount = 0
              /\ sender'.lastResetDate = toDateString(clock))
       /\ toDateString(clock) = sender.lastResetDate
          => sender'.dailyCount >= sender.dailyCount
       /\ (ValidBatchCall /\ toDateString(clock) # sender.lastResetDate)
          => (/\ sender'.dailyCount = 0
              /\ sender'.lastResetDate = toDateString(clock)
              /\ call'[1].pc # "thrown"
              /\ call'[1].trace # <<>>)]_vars

\* A batch that was started on a new date, with the counter of the previous
\* date at dailyLimit or above, has returned its results
C31_Witness ==
    /\ call[1].op = "sendToMultiple"
    /\ call[1].pc = "returned"
    /\ call[1].quota.count >= sender.options.dailyLimit
    /\ call[1].quota.date # sender.lastResetDate
    /\ sender.lastResetDate = toDateString(clock)
    /\ sender.dailyCount >= 1

\* The keyword groups of the class factor in their order of precedence, with
\* the factor in tenths
FactorGroups ==
    << [keywords |-> {"network", "timeout", "connection"}, tenths |-> 15],
       [keywords |-> {"rate", "limit", "quota"},           tenths |-> 30],
       [keywords |-> {"auth", "credential", "permission"}, tenths |-> 12],
       [keywords |-> {"smtp", "mail", "delivery"},         tenths |-> 13] >>

\* The groups a message matches, case-insensitively
MatchedGroups(error) ==
    {g \in DOMAIN FactorGroups :
        \E kw \in FactorGroups[g].keywords : includes(toLowerCase(Chars[error]), kw)}

\* The factor of the earliest matching group, 1.0 when none matches
ClassFactor(error) ==
    IF MatchedGroups(error) = {} THEN 10
    ELSE FactorGroups[CHOOSE g \in MatchedGroups(error) :
                          \A h \in MatchedGroups(error) : g <= h].tenths

\* ClassFactor and the number of groups matched, tabulated over the messages
FactorOf == [error \in Messages \cup MixedMessages |-> ClassFactor(error)]
MatchCount == [error \in Messages \cup MixedMessages |-> Cardinality(MatchedGroups(error))]

\* C32: the delay of attempt a before the maxDelay cap lies between
\* baseDelay * 2^(a-1) * factor and 1.1 * baseDelay * 2^(a-1) * factor, where
\* factor is that of the earliest keyword group the lowercased message matches
\* (1.5, 3.0, 1.2, 1.3 in the order network, rate, auth, smtp; 1.0 when none
\* matches); the delay returned is the smaller of that value and maxDelay.
\* Delays are in thousandths of a millisecond.
C32_ClassFactor ==
    \A i \in DOMAIN output :
        LET low == output[i].preJitter * 100 * FactorOf[input.error] IN
        /\ output[i].preJitter = retryLogic.baseDelay * Pow2(output[i].attempt - 1)
        /\ low <= output[i].uncapped
        /\ output[i].uncapped <= low + low \div 10      \* low is a multiple of 10
        /\ output[i].delay = Min(output[i].uncapped, retryLogic.maxDelay * 1000)

\* A message that matches a later group as well as the rate group got the
\* factor 3.0, with jitter, below the cap
C32_Witness ==
    /\ MatchCount[input.error] >= 2
    /\ FactorOf[input.error] = 30
    /\ \E i \in DOMAIN output :
           /\ output[i].attempt = 2
           /\ output[i].uncapped > output[i].preJitter * 3000
           /\ output[i].uncapped < retryLogic.maxDelay * 1000

\* The transport calls a call's trace holds for its i-th recipient
TransportsFor(trace, i) ==
    Cardinality({k \in DOMAIN trace : trace[k].kind = "transport" /\ trace[k].index = i})

\* A step in which the running call (sendToMultiple or sendSingle) got a result
GetsResult ==
    /\ call'[1].ops = call[1].ops
    /\ Len(call'[1].results) = Len(call[1].results) + 1

\* C33: transport calls are made one at a time, each logged by the call for
\* the recipient it is for.  In every state of a call, the attempts field of
\* each result it holds equals the number of transport calls made for that
\* recipient (so none is made for it after its result) and lies in
\* 1..maxRetries.  A successful result is produced by the fulfilment of the
\* transport call numbered attempts, after attempts - 1 failures that all
\* carried retryable errors; a failed result was preceded by attempts failures
\* and carries the error of the last.
C33_AttemptsAreTransportCalls ==
    [][/\ transportCalls' \in {transportCalls, transportCalls + 1}
       /\ transportCalls' = transportCalls + 1 <=> Logs("transport")
       /\ call'[1].pc \notin {"none", "thrown"} =>
              \A i \in DOMAIN call'[1].results :
                  /\ call'[1].results[i].attempts = TransportsFor(call'[1].trace, i)
                  /\ 1 <= call'[1].results[i].attempts
                  /\ call'[1].results[i].attempts <= retryLogic.maxRetries
       /\ GetsResult =>
              LET result == call'[1].results[Len(call'[1].results)]
                  errors == retry'[1].errors
              IN  /\ result.success =>
                         /\ call[1].pc = "transport"
                         /\ call[1].attempts = result.attempts
                         /\ Len(errors) = result.attempts - 1
                         /\ \A k \in DOMAIN errors : errors[k] \notin NonRetryableMessages
                  /\ ~result.success =>
                         /\ Len(errors) = result.attempts
                         /\ result.error = errors[Len(errors)]]_vars

\* A batch returned a success at the second attempt for its first recipient
\* and a failure after two attempts for its second
C33_Witness ==
    /\ call[1].op = "sendToMultiple"
    /\ call[1].pc = "returned"
    /\ Len(call[1].results) = 2
    /\ call[1].results[1].success
    /\ call[1].results[1].attempts = 2
    /\ ~call[1].results[2].success
    /\ call[1].results[2].attempts = 2
    /\ retryLogic.maxRetries = 2
    /\ TransportsFor(call[1].trace, 1) = 2

\* The decimal with the digits rate (d0.d1d2...) lies in [0.8, 0.95]
InNeutralBand(rate) ==
    /\ rate[1] = 0
    /\ Len(rate) >= 2
    /\ \/ rate[2] = 8
       \/ /\ rate[2] = 9
          /\ \/ Len(rate) = 2
             \/ rate[3] <= 4
             \/ (rate[3] = 5 /\ Len(rate) = 3)

\* C34: a recordResult call never changes maxEmailsPerHour, the timestamp
\* sequence (or anything but successRate and maxEmailsPerMinute), and when it
\* leaves successRate in [0.8, 0.95] it leaves maxEmailsPerMinute unchanged too;
\* getAdaptiveStatistics changes nothing and reports adaptationActive = true
\* exactly when successRate is outside that band, with the current successRate
\* and limit.
C34_NeutralBand ==
    [][/\ output' # output =>
              /\ rateLimiter'.maxEmailsPerHour = rateLimiter.maxEmailsPerHour
              /\ rateLimiter'.emailTimestamps = rateLimiter.emailTimestamps
              /\ rateLimiter' = [rateLimiter EXCEPT
                                    !.successRate = rateLimiter'.successRate,
                                    !.maxEmailsPerMinute = rateLimiter'.maxEmailsPerMinute]
              /\ InNeutralBand(rateLimiter'.successRate) =>
                     rateLimiter'.maxEmailsPerMinute = rateLimiter.maxEmailsPerMinute
       /\ input' # input =>
              /\ rateLimiter' = rateLimiter
              /\ input'[1].adaptationActive <=> ~InNeutralBand(rateLimiter.successRate)
              /\ input'[1].successRate = rateLimiter.successRate
              /\ input'[1].currentLimit = rateLimiter.maxEmailsPerMinute]_vars

\* After sends were recorded and a success had raised the limit, a failure
\* left successRate at 0.9 and the limit as it was, and getAdaptiveStatistics
\* then reported no adaptation
C34_Witness ==
    /\ rateLimiter.emailTimestamps # <<>>
    /\ Len(output) >= 2
    /\ output[1].success
    /\ output[1].after > output[1].before
    /\ output[Len(output)].rate = <<0, 9>>
    /\ ~output[Len(output)].success
    /\ output[Len(output)].before = output[Len(output)].after
    /\ input # <<>>
    /\ ~input[1].adaptationActive
    /\ input[1].successRate = rateLimiter.successRate

\* The number of results of the set that satisfy Test
CountResults(results, Test(_)) == Cardinality({i \in DOMAIN results : Test(results[i])})

FirstTrySuccess(result) == result.success /\ result.attempts = 1
RetriedSuccess(result) == result.success /\ result.attempts # 1
Failure(result) == ~result.success

SingleStep == call'[1] # call[1] /\ call'[1].op = "sendSingle"

\* C36: no step of a sendSingle call touches the rate limiter (no waitIfNeeded
\* call, no timestamp, no limiter statistic), the running statistics or
\* lastResetDate, and none throws; dailyCount grows by one in the steps that
\* make a transport call and in no other.  The call makes its first transport
\* call at once, whatever dailyCount is (no quota check), and retries as the
\* retry policy says: it returns one result, a success or a failure whose
\* attempts is maxRetries unless its error is one that is not retried.
C36_SendSingleBypasses ==
    [][SingleStep =>
          /\ rateLimiter' = rateLimiter
          /\ rl' = rl
          /\ released' = released
          /\ sender'.statistics = sender.statistics
          /\ sender'.lastResetDate = sender.lastResetDate
          /\ call'[1].pc \in {"transport", "backoff", "returned"}
          /\ sender'.dailyCount =
                 sender.dailyCount + (IF Logs("transport") THEN 1 ELSE 0)
          /\ call'[1].ops # call[1].ops =>
                 (Logs("transport") /\ call'[1].pc = "transport" /\ call'[1].attempts = 1)
          /\ call'[1].pc = "returned" =>
                 LET result == call'[1].results[1] IN
                 /\ Len(call'[1].results) = 1
                 /\ result.attempts = TransportsFor(call'[1].trace, 1)
                 /\ ~result.success =>
                        \/ result.error \in NonRetryableMessages
                        \/ result.attempts = retryLogic.maxRetries]_vars

\* A sendSingle call made with the quota already exceeded returned a failed
\* result after two attempts; the quota counter holds the four attempts of the
\* two calls made, while the statistics and the limiter hold nothing
C36_Witness ==
    /\ call[1].op = "sendSingle"
    /\ call[1].pc = "returned"
    /\ call[1].ops = 2
    /\ ~call[1].results[1].success
    /\ call[1].results[1].attempts = 2
    /\ call[1].results[1].error = "network timeout"
    /\ sender.options.dailyLimit = 1
    /\ sender.dailyCount = 4
    /\ sender.statistics.totalAttempts = 0
    /\ sender.statistics.totalFailed = 0
    /\ rateLimiter.emailTimestamps = <<>>
    /\ rateLimiter.stats.totalEmails = 0

\* The backoff waits a call's trace shows: a settled transport call that was
\* followed by another transport call, or after which the call is in backoff
BackoffsOf(c) ==
    Cardinality({k \in DOMAIN c.trace :
        /\ c.trace[k].kind = "settled"
        /\ k < Len(c.trace) => c.trace[k + 1].kind = "transport"
        /\ k = Len(c.trace) => c.pc = "backoff"})

\* The bounds of a sendToMultiple call over n recipients with maxRetries = m
BatchBounds ==
    LET c == call[1]
        n == Len(c.recipients)
        m == retryLogic.maxRetries
    IN  (c.op = "sendToMultiple" /\ c.pc \notin {"none", "thrown"}) =>
            /\ CountKind(c.trace, "transport") <= n * m
            /\ CountKind(c.trace, "limit") <= n
            /\ BackoffsOf(c) <= n * (m - 1)
            /\ c.pc = "backoff" => retry[1].suspends <= m - 1
            /\ (c.pc = "limit" /\ rl[1].pc = "delay") =>
                   /\ rl[1].waitTime >= 1
                   /\ rl[1].waitTime <= hourWindow
                   /\ rl[1].wake = rl[1].now + rl[1].waitTime

BatchRunning ==
    call[1].op = "sendToMultiple" /\ call[1].pc \in {"limit", "transport", "backoff", "pacing"}

\* C37: when every transport call and every timed suspension eventually
\* completes, a running sendToMultiple call over n recipients eventually
\* returns.  At every moment it has made at most n * maxRetries transport
\* calls, n waitIfNeeded calls and n * (maxRetries - 1) backoff waits; a
\* limiter suspension begins only in the step that calls waitIfNeeded (so
\* there are at most n limiter waits, one per recipient) and lasts between
\* 1 ms and 3600 s.
C37_BatchTerminates ==
    /\ []BatchBounds
    /\ [][(rl'[1].pc = "delay" /\ rl'[1] # rl[1]) => Logs("limit")]_vars
    /\ BatchRunning ~> (call[1].pc = "returned")

\* A batch of two recipients used every transport call and backoff wait its
\* bounds allow, after the limiter had delayed its second recipient, and
\* returned
C37_Witness ==
    /\ call[1].op = "sendToMultiple"
    /\ call[1].pc = "returned"
    /\ Len(call[1].recipients) = 2
    /\ retryLogic.maxRetries = 2
    /\ CountKind(call[1].trace, "transport") = 4
    /\ BackoffsOf(call[1]) = 2
    /\ CountKind(call[1].trace, "limit") = 2
    /\ rl[1].waitTime >= 1
    /\ rateLimiter.stats.rateLimitedEmails >= 1

\* The sum of the attempts of the results a call holds
AttemptsOf(c) == SumSeq([i \in DOMAIN c.results |-> c.results[i].attempts])

\* C38: while and after two sendToMultiple calls overlap on one EmailSender,
\* interleaving at every await, totalSent + totalFailed is the number of results
\* the two calls hold and totalAttempts the sum of their attempts; each call's
\* results are for its own recipients in its own input order, and a returned
\* call holds one result per recipient.  So after both have returned,
\* totalSent + totalFailed is the number of recipients of both batches.
C38_NoLostUpdate ==
    LET st == sender.statistics IN
    /\ st.totalSent + st.totalFailed = Len(call[1].results) + Len(call[2].results)
    /\ st.totalAttempts = AttemptsOf(call[1]) + AttemptsOf(call[2])
    /\ \A p \in Callers :
           /\ Len(call[p].results) <= Len(call[p].recipients)
           /\ \A i \in DOMAIN call[p].results :
                  call[p].results[i].recipient = call[p].recipients[i].email
           /\ call[p].pc = "returned" => Len(call[p].results) = Len(call[p].recipients)
    /\ (call[1].pc = "returned" /\ call[2].pc = "returned") =>
           st.totalSent + st.totalFailed
               = Len(call[1].recipients) + Len(call[2].recipients)

\* Both calls returned; caller 2 called when caller 1 had made its first
\* transport call and no other; every recipient took two attempts, and the
\* statistics hold the three results and their six attempts
C38_Witness ==
    /\ call[1].pc = "returned"
    /\ call[2].pc = "returned"
    /\ call[2].quota.count = 1
    /\ Len(call[1].results) = 2
    /\ Len(call[2].results) = 1
    /\ call[1].results[1].success
    /\ call[1].results[2].attempts = 2
    /\ ~call[1].results[2].success
    /\ call[2].results[1].attempts = 2
    /\ call[2].results[1].success
    /\ call[1].results[1].attempts = 2
    /\ sender.statistics.totalAttempts = 6
    /\ sender.statistics.totalSent = 2
    /\ sender.statistics.totalFailed = 1
    /\ sender.dailyCount = 6

\* C39: in every state of an enabled limiter with caps >= 1, used by one
\* caller: rateLimitedEmails <= totalEmails, the number of stored timestamps
\* <= totalEmails, averageWaitTime <= maxWaitTime; the wait computed now, and
\* the wait the last call computed, lie between 0 and 3600000 ms, and between
\* 1 and 60000 ms when the minute window is saturated.
C39_LimiterStatistics ==
    (/\ rateLimiter.enabled
     /\ rateLimiter.maxEmailsPerMinute >= 1
     /\ rateLimiter.maxEmailsPerHour >= 1) =>
        LET stats == rateLimiter.stats
            wait  == _calculateWaitTime(rateLimiter, clock)
        IN  /\ stats.rateLimitedEmails <= stats.totalEmails
            /\ Len(rateLimiter.emailTimestamps) <= stats.totalEmails
            /\ stats.averageWaitTime.num <= stats.maxWaitTime * stats.averageWaitTime.den
            /\ wait >= 0
            /\ wait <= 3600000
            /\ CountNewerThan(clock, 60000) >= rateLimiter.maxEmailsPerMinute =>
                   (wait >= 1 /\ wait <= 60000)
            /\ rl[1].waitTime >= 0
            /\ rl[1].waitTime <= 3600000
            /\ rl[1].pc = "delay" => rl[1].waitTime >= 1
            /\ (rl[1].pc = "delay"
                   /\ CountNewerThan(rl[1].now, 60000) >= rateLimiter.maxEmailsPerMinute) =>
                   rl[1].waitTime <= 60000

\* A call is suspended for the hour window (more than 60 s) after an earlier
\* call had waited for the minute window: fewer calls were throttled than were
\* counted as sent, and the average wait is below the maximum
C39_Witness ==
    /\ rateLimiter.enabled
    /\ rl[1].pc = "delay"
    /\ rl[1].waitTime > 60000
    /\ rateLimiter.stats.rateLimitedEmails >= 2
    /\ rateLimiter.stats.rateLimitedEmails < rateLimiter.stats.totalEmails
    /\ rateLimiter.stats.averageWaitTime.num
           < rateLimiter.stats.maxWaitTime * rateLimiter.stats.averageWaitTime.den
    /\ rateLimiter.stats.maxWaitTime = rl[1].waitTime

\* C40: for every configured maxRetries >= 0, an operation that fails every
\* attempt with a retryable error is invoked exactly maxRetries times before
\* executeWithRetry throws; for every configured retryDelay >= 0, the delay of
\* attempt 1 before jitter is retryDelay.  Both include the configured value 0.
C40_ConfigHonoured ==
    LET r == retry[1] IN
    /\ (/\ input.maxRetries # Absent
        /\ r.pc = "thrown"
        /\ \A i \in DOMAIN r.errors : r.errors[i] \notin NonRetryableMessages) =>
           r.fnCalls = input.maxRetries
    /\ (input.retryDelay # Absent /\ r.pc = "delay" /\ r.attempt = 1) =>
           r.preJitter = input.retryDelay

\* The same for configured values of at least 1 only
NonZeroConfigHonoured ==
    LET r == retry[1] IN
    /\ (/\ input.maxRetries >= 1
        /\ r.pc = "thrown"
        /\ \A i \in DOMAIN r.errors : r.errors[i] \notin NonRetryableMessages) =>
           r.fnCalls = input.maxRetries
    /\ (input.retryDelay >= 1 /\ r.pc = "delay" /\ r.attempt = 1) =>
           r.preJitter = input.retryDelay

====
